---- MODULE Spec2Model ----
(***************************************************************************)
(* NodeJs-api-checker: the static-analysis subsystem (SecurityAnalyzer,    *)
(* StructureAnalyzer, CodeParser), the aggregation of their findings and   *)
(* the CLI commands that clone a repository, analyse it and clean up.      *)
(*                                                                         *)
(* Source text is modelled as a sequence of one-character strings, so the  *)
(* regular expressions, split("\n"), trim() and includes() of the source   *)
(* are computed character by character.                                    *)
(***************************************************************************)
EXTENDS Integers, Sequences, FiniteSets, TLC

VARIABLES
    sourceFiles,     \* the source files on disk, in the order getSourceFiles lists them
    repoRoot,        \* names of the entries that exist at the repository root
    gitignoreContent,\* text of <root>/.gitignore (read only when it exists)
    secFindings,     \* SecurityAnalyzer.findings
    parsedFiles,     \* SecurityAnalyzer.analyze: const parsedFiles
    secPc,           \* position inside SecurityAnalyzer.analyze
    secIdx,          \* analyze: index of the next element of parsedFiles
    structFindings,  \* StructureAnalyzer.findings
    structPc,        \* position inside StructureAnalyzer.analyze
    secReturned,     \* the arrays returned by the calls of SecurityAnalyzer.analyze
    structRuns,      \* number of calls of StructureAnalyzer.analyze that returned
    summary,         \* the result of the last getSummary() call
    cmd,             \* the CLI command of the run: analyze, issue, review or fix
    pc,              \* position of the run inside its command function
    hasToken,        \* process.env.GITHUB_TOKEN is set
    urlValid,        \* the repository locator matches parseRepoUrl's pattern
    origin,          \* the remote repository: its default branch and pull requests
    cloneDir,        \* cloned-repos/<owner>-<repo>: absent, stale (left by an earlier
                     \* run) or fresh (cloned by this run)
    workFiles,       \* the source files in the clone directory
    allFindings,     \* const allFindings of the command
    openPRs,         \* runReviewCommand: const openPRs
    listedReviews,   \* the pull requests whose reviews pulls.listReviews returned
    issueCheck,      \* runIssueCommand: what issueExists came to (none before the call)
    prIdx,           \* runReviewCommand: index of the pull request being handled
    prFiles,         \* runReviewCommand: const prFiles of the pull request being handled
    fixResults,      \* createFixPR: what the fix of each critical finding returned so far
    committed,       \* createFixPR: git.commit has recorded the fixes on the local branch
    printed,         \* the notices written to the console so far (cleaning an existing
                     \* clone, reviews that could not be listed)
    runs,            \* the runs that execute at the same time, each with its locator,
                     \* its position and the directory cloneRepo returned to it
    dirs,            \* the directories under cloned-repos those runs have touched
    remoteLog,       \* the remote writes of the run, in order
    error            \* the message of the error thrown in the run, if any

inputVars == <<sourceFiles, repoRoot, gitignoreContent>>
secVars == <<secFindings, parsedFiles, secPc, secIdx>>
structVars == <<structFindings, structPc>>
histVars == <<secReturned, structRuns, summary>>
commandVars == <<cmd, pc, hasToken, urlValid, origin, cloneDir, workFiles, allFindings,
                 openPRs, listedReviews, issueCheck, prIdx, prFiles, fixResults,
                 committed, printed, remoteLog, error>>
concVars == <<runs, dirs>>
cliVars == <<commandVars, concVars>>

vars == <<inputVars, secVars, structVars, histVars, cliVars>>

\* JavaScript null, comparable with the records that stand for objects
Null == [null |-> TRUE]
Undefined == "undefined"

(***************************************************************************)
(* Bounds of the model.                                                    *)
(***************************************************************************)
\* lengths and line counts are drawn within Slack of each threshold of the code
Slack == 1
\* longest sequence of call nodes in a file whose calls are enumerated freely
MaxCalls == 2
\* calls of analyze on one analyzer
MaxRuns == 2

(***************************************************************************)
(* Characters and text helpers.                                            *)
(***************************************************************************)
Lower == {"a","b","c","d","e","f","g","h","i","j","k","l","m",
          "n","o","p","q","r","s","t","u","v","w","x","y","z"}
Upper == {"A","B","C","D","E","F","G","H","I","J","K","L","M",
          "N","O","P","Q","R","S","T","U","V","W","X","Y","Z"}
Digit == {"0","1","2","3","4","5","6","7","8","9"}

\* [a-zA-Z0-9]
IsAlnum(c) == c \in Lower \cup Upper \cup Digit
\* [0-9A-Z]
IsUpperOrDigit(c) == c \in Upper \cup Digit
\* \w
IsWordChar(c) == IsAlnum(c) \/ c = "_"
\* \s (and the characters String.prototype.trim removes)
IsSpace(c) == c \in {" ", "\t", "\r", "\n"}
\* ['"]
IsQuote(c) == c \in {"'", "\""}

\* three characters that have no spelling inside a string here; each stands
\* for one character of a text
Backtick == "U+0060"
WarningSign == "U+26A0"
CheckMark == "U+2705"

\* n copies of the character c
Run(c, n) == [k \in 1..n |-> c]

\* the literal lit occurs in s starting at position i
SubAt(s, i, lit) ==
    /\ i >= 1
    /\ i + Len(lit) - 1 <= Len(s)
    /\ \A k \in 1..Len(lit) : s[i + k - 1] = lit[k]

\* String.prototype.includes
Includes(s, lit) == \E i \in 1..(Len(s) - Len(lit) + 1) : SubAt(s, i, lit)

\* the pieces of s[lo..hi] between newline characters, computed by halving the
\* range so that the evaluation stays shallow on long texts
RECURSIVE SplitRange(_, _, _)
SplitRange(s, lo, hi) ==
    IF lo > hi THEN << << >> >>
    ELSE IF lo = hi
         THEN (IF s[lo] = "\n" THEN << << >>, << >> >> ELSE << << s[lo] >> >>)
    ELSE LET mid == (lo + hi) \div 2
             left == SplitRange(s, lo, mid)
             right == SplitRange(s, mid + 1, hi)
         IN  SubSeq(left, 1, Len(left) - 1)
             \o << left[Len(left)] \o right[1] >>
             \o SubSeq(right, 2, Len(right))

\* String.prototype.split("\n"): the pieces between newline characters; a text
\* that ends with "\n" yields a last, empty piece
SplitLines(s) == SplitRange(s, 1, Len(s))

\* Array.prototype.join("\n") of ls[lo..hi]
RECURSIVE JoinRange(_, _, _)
JoinRange(ls, lo, hi) ==
    IF lo > hi THEN << >>
    ELSE IF lo = hi THEN ls[lo]
    ELSE LET mid == (lo + hi) \div 2
         IN  JoinRange(ls, lo, mid) \o << "\n" >> \o JoinRange(ls, mid + 1, hi)

JoinLines(ls) == JoinRange(ls, 1, Len(ls))

\* String.prototype.trim
RECURSIVE TrimLeft(_)
TrimLeft(s) ==
    IF Len(s) > 0 /\ IsSpace(s[1]) THEN TrimLeft(Tail(s)) ELSE s

RECURSIVE TrimRight(_)
TrimRight(s) ==
    IF Len(s) > 0 /\ IsSpace(s[Len(s)]) THEN TrimRight(SubSeq(s, 1, Len(s) - 1)) ELSE s

Trim(s) == TrimRight(TrimLeft(s))

\* Array.prototype.slice(from, to) with 0-based from (inclusive) and to (exclusive)
Slice(ls, from, to) ==
    LET lo == IF from < 0 THEN 0 ELSE from
        hi == IF to > Len(ls) THEN Len(ls) ELSE to
    IN  IF lo >= hi THEN << >> ELSE SubSeq(ls, lo + 1, hi)

\* concatenation of the sequences ss[lo..hi]
RECURSIVE FlattenRange(_, _, _)
FlattenRange(ss, lo, hi) ==
    IF lo > hi THEN << >>
    ELSE IF lo = hi THEN ss[lo]
    ELSE LET mid == (lo + hi) \div 2
         IN  FlattenRange(ss, lo, mid) \o FlattenRange(ss, mid + 1, hi)

Flatten(ss) == FlattenRange(ss, 1, Len(ss))

(***************************************************************************)
(* CodeParser (src/utils/parser.js).                                       *)
(* A file on disk is [filePath, code, parses, ast, readable]: ast is the   *)
(* sequence of the nodes @babel/parser yields for code, in traversal       *)
(* order; parses is FALSE when parsing throws, readable when reading does. *)
(***************************************************************************)
parseFile(file) ==
    IF file.readable /\ file.parses
    THEN [ast |-> file.ast, code |-> file.code, filePath |-> file.filePath]
    ELSE Null

RECURSIVE parseFiles(_)
parseFiles(files) ==
    IF Len(files) = 0 THEN << >>
    ELSE LET result == parseFile(files[1])
         IN  (IF result # Null THEN << result >> ELSE << >>) \o parseFiles(Tail(files))

\* the line counted from 0
getLineNumberZeroBased(node) ==
    IF node.loc # Null THEN node.loc.start.line - 1 ELSE "unknown"

getLineNumber(node) == IF node.loc # Null THEN node.loc.start.line ELSE "unknown"

getCodeSnippet(code, startLine, endLine) ==
    JoinLines(Slice(SplitLines(code), startLine - 1, endLine))

(***************************************************************************)
(* SecurityAnalyzer (src/analyzers/security.js).                           *)
(***************************************************************************)
DbMethods == {"run", "all", "get", "exec"}

\* the condition of the CallExpression visitor under which it looks at the query
IsDbCall(node) ==
    /\ node.callee.type = "MemberExpression"
    /\ node.callee.object.name = "db"
    /\ node.callee.property.name \in DbMethods

\* the test without the check that the template literal interpolates anything
IsUnsafeQueryArgAnyTemplate(queryArg) ==
    queryArg.type \in {"BinaryExpression", "TemplateLiteral"}

IsUnsafeQueryArg(queryArg) ==
    \/ queryArg.type = "BinaryExpression"
    \/ (queryArg.type = "TemplateLiteral" /\ queryArg.expressions > 0)

\* the findings the CallExpression visitor pushes for one node (none or one)
VisitCallExpression(node, code, filePath) ==
    IF ~IsDbCall(node) THEN << >>
    ELSE IF Len(node.arguments) = 0 THEN << >>
    ELSE IF ~IsUnsafeQueryArg(node.arguments[1]) THEN << >>
    ELSE LET line == getLineNumber(node)
         IN  << [type |-> "sql-injection",
                 severity |-> "critical",
                 file |-> filePath,
                 line |-> line,
                 message |-> "SQL Injection vulnerability detected",
                 snippet |-> getCodeSnippet(code, line, line + 2),
                 recommendation |-> "Use parameterized queries with ? placeholders"] >>

\* traverseAST with the CallExpression visitor: every node of that type, in order
checkSQLInjection(findings, ast, code, filePath) ==
    findings \o
    Flatten([k \in 1..Len(ast) |->
                IF ast[k].type = "CallExpression"
                THEN VisitCallExpression(ast[k], code, filePath)
                ELSE << >>])

MinKeyTail == 20
AwsKeyLen == 16
MinSecretLen == 10

ApiKeyPrefixes == { <<"s", "k", "_", "l", "i", "v", "e", "_">>,
                    <<"p", "k", "_", "l", "i", "v", "e", "_">>,
                    <<"a", "p", "i", "_", "k", "e", "y", "_">> }
AwsPrefix == <<"A", "K", "I", "A">>
SecretWords == { <<"p", "a", "s", "s", "w", "o", "r", "d">>,
                 <<"s", "e", "c", "r", "e", "t">>,
                 <<"t", "o", "k", "e", "n">>,
                 <<"a", "p", "i", "_", "k", "e", "y">> }

\* /['"](sk_live_|pk_live_|api_key_)[a-zA-Z0-9]{20,}['"]/.test(line)
ApiKeyPattern(line) ==
    \E i \in 1..Len(line) :
        /\ IsQuote(line[i])
        /\ \E pre \in ApiKeyPrefixes :
              /\ SubAt(line, i + 1, pre)
              /\ LET p == i + 1 + Len(pre)
                 IN  \E e \in (p + MinKeyTail)..Len(line) :
                        /\ IsQuote(line[e])
                        /\ \A k \in p..(e - 1) : IsAlnum(line[k])

\* /['"]AKIA[0-9A-Z]{16}['"]/.test(line)
AwsKeyPattern(line) ==
    \E i \in 1..Len(line) :
        /\ IsQuote(line[i])
        /\ SubAt(line, i + 1, AwsPrefix)
        /\ LET p == i + 1 + Len(AwsPrefix)
               e == p + AwsKeyLen
           IN  /\ e <= Len(line)
               /\ IsQuote(line[e])
               /\ \A k \in p..(e - 1) : IsUpperOrDigit(line[k])

\* /(<words>)\s*[:=]\s*['"]\w{10,}['"]/.test(line), for the alternation <words>
AssignmentPattern(line, words) ==
    \E i \in 1..Len(line) : \E word \in words :
        /\ SubAt(line, i, word)
        /\ LET j == i + Len(word)
           IN  \E a \in j..Len(line) :
                  /\ \A k \in j..(a - 1) : IsSpace(line[k])
                  /\ line[a] \in {":", "="}
                  /\ \E b \in (a + 1)..Len(line) :
                        /\ \A k \in (a + 1)..(b - 1) : IsSpace(line[k])
                        /\ IsQuote(line[b])
                        /\ \E e \in (b + 1 + MinSecretLen)..Len(line) :
                              /\ IsQuote(line[e])
                              /\ \A k \in (b + 1)..(e - 1) : IsWordChar(line[k])

UpperSeq == <<"A","B","C","D","E","F","G","H","I","J","K","L","M",
              "N","O","P","Q","R","S","T","U","V","W","X","Y","Z">>
LowerSeq == <<"a","b","c","d","e","f","g","h","i","j","k","l","m",
              "n","o","p","q","r","s","t","u","v","w","x","y","z">>
ToLowerChar(c) ==
    IF c \in Upper THEN LowerSeq[CHOOSE i \in 1..Len(UpperSeq) : UpperSeq[i] = c] ELSE c
ToLower(s) == [k \in 1..Len(s) |-> ToLowerChar(s[k])]

\* the generic pattern as it would be with the i flag
GenericSecretPatternIgnoreCase(line) == AssignmentPattern(ToLower(line), SecretWords)

\* /(password|secret|token|api_key)\s*[:=]\s*['"]\w{10,}['"]/.test(line)
GenericSecretPattern(line) == AssignmentPattern(line, SecretWords)

\* the names of secretPatterns, in array order
secretPatterns == << "API Key", "AWS Key", "Generic Secret" >>

PatternTest(name, line) ==
    CASE name = "API Key" -> ApiKeyPattern(line)
      [] name = "AWS Key" -> AwsKeyPattern(line)
      [] name = "Generic Secret" -> GenericSecretPattern(line)

ExposedSecretFinding(name, line, index, filePath) ==
    [type |-> "exposed-secret",
     severity |-> "critical",
     file |-> filePath,
     line |-> index + 1,
     message |-> << "Potential", name, "found in code" >>,
     snippet |-> Trim(line),
     recommendation |-> "Move secrets to environment variables"]

\* the inner loop stopping at the first pattern that matches
SecretFindingsOfLineFirstOnly(line, index, filePath) ==
    LET hits == SelectSeq(secretPatterns, LAMBDA name : PatternTest(name, line))
    IN  IF Len(hits) = 0 THEN << >>
        ELSE << ExposedSecretFinding(hits[1], line, index, filePath) >>

\* the inner secretPatterns.forEach for one line: one finding per matching pattern
SecretFindingsOfLine(line, index, filePath) ==
    LET hits == SelectSeq(secretPatterns, LAMBDA name : PatternTest(name, line))
    IN  [k \in 1..Len(hits) |-> ExposedSecretFinding(hits[k], line, index, filePath)]

checkSecretsInCode(findings, code, filePath) ==
    LET lines == SplitLines(code)
    IN  findings \o
        Flatten([k \in 1..Len(lines) |->
                    \* lines.forEach((line, index) => ...) with index = k - 1
                    SecretFindingsOfLine(lines[k], k - 1, filePath)])

\* the body of the for loop of analyze for one parsed file
AnalyzeParsedFile(findings, pf) ==
    checkSecretsInCode(checkSQLInjection(findings, pf.ast, pf.code, pf.filePath),
                       pf.code, pf.filePath)

RECURSIVE AnalyzeParsedFiles(_, _)
AnalyzeParsedFiles(findings, pfs) ==
    IF Len(pfs) = 0 THEN findings
    ELSE AnalyzeParsedFiles(AnalyzeParsedFile(findings, pfs[1]), Tail(pfs))

\* SecurityAnalyzer.analyze as one call
SecurityAnalyze(files) == AnalyzeParsedFiles(<< >>, parseFiles(files))

getBySeverity(findings, severity) ==
    SelectSeq(findings, LAMBDA f : f.severity = severity)

(***************************************************************************)
(* StructureAnalyzer (src/analyzers/structure.js).                         *)
(* A path is the sequence of its segments; path.join appends a segment and *)
(* path.basename is the last one.  fs.pathExists(path.join(repoPath, n))   *)
(* is n \in repoRoot.                                                      *)
(***************************************************************************)
basename(path) == path[Len(path)]

pathExists(root, name) == name \in root

recommendedFolders == << "routes", "controllers", "models", "middleware", "config" >>

MissingFolderThreshold == 3
MonolithicFileLines == 100
SingleFileAppLines == 150

MissingFolderFinding(missingFolders, repoPath) ==
    [type |-> "missing-folder-structure",
     severity |-> "warning",
     file |-> repoPath,
     line |-> "N/A",
     message |-> "Recommended folder structure not found",
     description |-> << "Missing", Len(missingFolders),
                        "recommended folders:", missingFolders >>,
     recommendation |-> recommendedFolders]

\* the check with > in place of >=
checkFolderStructureStrict(findings, root, repoPath) ==
    LET missingFolders == SelectSeq(recommendedFolders, LAMBDA name : ~pathExists(root, name))
    IN  IF Len(missingFolders) > MissingFolderThreshold
        THEN Append(findings, MissingFolderFinding(missingFolders, repoPath))
        ELSE findings

checkFolderStructure(findings, root, repoPath) ==
    LET missingFolders == SelectSeq(recommendedFolders, LAMBDA name : ~pathExists(root, name))
    IN  IF Len(missingFolders) >= MissingFolderThreshold
        THEN Append(findings, MissingFolderFinding(missingFolders, repoPath))
        ELSE findings

RouteVerbs == { <<"g", "e", "t">>, <<"p", "o", "s", "t">>, <<"p", "u", "t">>,
                <<"d", "e", "l", "e", "t", "e">>, <<"p", "a", "t", "c", "h">> }
DbVerbs == { <<"r", "u", "n">>, <<"a", "l", "l">>, <<"g", "e", "t">>, <<"e", "x", "e", "c">> }

\* /app\.(get|post|put|delete|patch)\(/.test(content)
RoutePattern(content) ==
    \E i \in 1..Len(content) :
        /\ SubAt(content, i, <<"a", "p", "p", ".">>)
        /\ \E verb \in RouteVerbs : SubAt(content, i + 4, verb \o << "(" >>)

\* /db\.(run|all|get|exec)\(/.test(content)
DbPattern(content) ==
    \E i \in 1..Len(content) :
        /\ SubAt(content, i, <<"d", "b", ".">>)
        /\ \E verb \in DbVerbs : SubAt(content, i + 3, verb \o << "(" >>)

\* content.split("\n").length
LinesCount(content) == Len(SplitLines(content))

\* the body of the for loop of checkSeparationOfConcerns for one file
SeparationFindingsOfFile(file) ==
    LET content == file.code
        hasRoutes == RoutePattern(content)
        hasDbLogic == DbPattern(content)
    IN  IF hasRoutes /\ hasDbLogic /\ LinesCount(content) > MonolithicFileLines
        THEN << [type |-> "monolithic-file",
                 severity |-> "warning",
                 file |-> file.filePath,
                 line |-> "N/A",
                 message |-> "Routes and database logic in same file",
                 description |-> << basename(file.filePath), LinesCount(content) >>,
                 recommendation |-> "Separate into routes, controllers, models"] >>
        ELSE << >>

checkSeparationOfConcerns(findings, files) ==
    findings \o Flatten([k \in 1..Len(files) |-> SeparationFindingsOfFile(files[k])])

\* await fs.readFile(filePath, "utf-8") rejects for one of the files
ReadFails(files) == \E k \in 1..Len(files) : ~files[k].readable

\* the files checkSeparationOfConcerns has handled when a read rejects
ReadBefore(files) ==
    SubSeq(files, 1, (CHOOSE k \in 1..Len(files) :
                         /\ ~files[k].readable
                         /\ \A j \in 1..(k - 1) : files[j].readable) - 1)

\* the table with README.md given the severity of its neighbours
essentialFilesAllWarning ==
    << [name |-> ".env.example", severity |-> "warning"],
       [name |-> ".gitignore", severity |-> "warning"],
       [name |-> "README.md", severity |-> "warning"],
       [name |-> "package.json", severity |-> "critical"] >>

essentialFiles ==
    << [name |-> ".env.example", severity |-> "warning"],
       [name |-> ".gitignore", severity |-> "warning"],
       [name |-> "README.md", severity |-> "info"],
       [name |-> "package.json", severity |-> "critical"] >>

MissingEssentialFinding(file, repoPath) ==
    [type |-> "missing-essential-file",
     severity |-> file.severity,
     file |-> repoPath,
     line |-> "N/A",
     message |-> << "Missing", file.name >>,
     recommendation |-> IF file.name = ".gitignore"
                        THEN "Create .gitignore with: node_modules/ .env *.log .DS_Store"
                        ELSE "Create the file"]

EnvNotIgnoredFinding(repoPath) ==
    [type |-> "env-not-ignored",
     severity |-> "critical",
     file |-> Append(repoPath, ".gitignore"),
     line |-> "N/A",
     message |-> ".env file not in .gitignore",
     recommendation |-> "Add .env to your .gitignore file"]

\* the check without the test that .gitignore exists, a missing file read as empty
EnvNotIgnoredFindingsNoGitignoreTest(root, gitignore, repoPath) ==
    IF pathExists(root, ".env")
         /\ (~pathExists(root, ".gitignore") \/ ~Includes(gitignore, <<".", "e", "n", "v">>))
    THEN << EnvNotIgnoredFinding(repoPath) >>
    ELSE << >>

\* the part of checkEssentialFiles that looks at .env and .gitignore
EnvNotIgnoredFindings(root, gitignore, repoPath) ==
    IF pathExists(root, ".env") /\ pathExists(root, ".gitignore")
         /\ ~Includes(gitignore, <<".", "e", "n", "v">>)
    THEN << EnvNotIgnoredFinding(repoPath) >>
    ELSE << >>

checkEssentialFiles(findings, root, gitignore, repoPath) ==
    LET missing == SelectSeq(essentialFiles, LAMBDA file : ~pathExists(root, file.name))
    IN  findings
        \o [k \in 1..Len(missing) |-> MissingEssentialFinding(missing[k], repoPath)]
        \o EnvNotIgnoredFindings(root, gitignore, repoPath)

checkMonolithicStructure(findings, files) ==
    IF Len(files) = 1 /\ LinesCount(files[1].code) > SingleFileAppLines
    THEN Append(findings,
            [type |-> "single-file-app",
             severity |-> "warning",
             file |-> files[1].filePath,
             line |-> "N/A",
             message |-> "Entire application in single file",
             description |-> << LinesCount(files[1].code) >>,
             recommendation |-> "Consider splitting into multiple files"])
    ELSE findings

\* StructureAnalyzer.analyze as one call
StructureAnalyze(root, gitignore, repoPath, files) ==
    checkMonolithicStructure(
        checkEssentialFiles(
            checkSeparationOfConcerns(
                checkFolderStructure(<< >>, root, repoPath), files),
            root, gitignore, repoPath),
        files)

(***************************************************************************)
(* Inputs: paths, texts and syntax trees the analyzers are run on.         *)
(* @babel/parser is an external library: the nodes it yields for a file    *)
(* are an input, each with the position (loc) the parser always records.   *)
(***************************************************************************)
repoPath == << "cloned-repos", "owner-repo" >>
PathApp == repoPath \o << "app.js" >>
PathDb == repoPath \o << "src", "db.js" >>
\* a file of an earlier clone that no branch of the repository has
PathLegacy == repoPath \o << "legacy.js" >>

File(path, code, parses, ast) ==
    [filePath |-> path, code |-> code, parses |-> parses, ast |-> ast,
     readable |-> TRUE]

\* a file fs.readFile rejects for
UnreadableFile(path) ==
    [filePath |-> path, code |-> << >>, parses |-> FALSE, ast |-> << >>,
     readable |-> FALSE]

LineApiKeyLiteral ==
    <<"c", "o", "n", "s", "t", " ", "a", "p", "i", "K", "e", "y", " ", "=", " ", "\"",
      "s", "k", "_", "l", "i", "v", "e", "_", "a", "b", "c", "d", "e", "f", "g", "h",
      "i", "j", "k", "l", "m", "n", "o", "p", "q", "r", "s", "t", "u", "v", "w", "x", "\"">>
LineApiKeyEnv ==
    <<"c", "o", "n", "s", "t", " ", "a", "p", "i", "K", "e", "y", " ", "=", " ", "p",
      "r", "o", "c", "e", "s", "s", ".", "e", "n", "v", ".", "A", "P", "I", "_", "K", "E", "Y">>
LineFiller == <<"c", "o", "n", "s", "t", " ", "x", " ", "=", " ", "1", ";">>
LineDbRun == <<" ", " ", "d", "b", ".", "r", "u", "n", "(", "q", " ", "+", " ", "i", "d", ")">>
LineAppGet == <<"a", "p", "p", ".", "g", "e", "t", "(", "p", ",", " ", "h", ")">>

WordPassword == <<"p", "a", "s", "s", "w", "o", "r", "d">>
WordPasswordUpper == <<"P", "A", "S", "S", "W", "O", "R", "D">>
WordToken == <<"t", "o", "k", "e", "n">>
WordTokenCapital == <<"T", "o", "k", "e", "n">>
WordApiKeyCamel == <<"a", "p", "i", "K", "e", "y">>

SecretIdents == SecretWords \cup {WordPasswordUpper, WordTokenCapital, WordApiKeyCamel}
Seps == {":", "=", "("}
QuotePairs == { <<"\"", "\"">>, <<"'", "'">>, <<"'", "\"">>, <<"#", "#">> }
Around(n) == (n - Slack)..(n + Slack)

LiteralBodies ==
    {Run("a", n) : n \in Around(MinSecretLen)}
    \cup {Run("a", MinSecretLen) \o << "-" >>}
    \cup {pre \o Run("a", n) : pre \in ApiKeyPrefixes, n \in Around(MinKeyTail)}
    \cup {<<"s", "k", "_", "l", "i", "v", "e", "_">> \o Run("a", MinKeyTail - 1) \o << "_" >>}
    \cup {AwsPrefix \o Run(c, n) : c \in {"A", "7", "a"}, n \in Around(AwsKeyLen)}

\* <ident> <sep> <quote><body><quote>, written tightly or indented with blanks
AssignLine(loose, ident, sep, quotes, body) ==
    LET gap == IF loose THEN << " " >> ELSE << >>
    IN  (IF loose THEN << " ", "\t" >> ELSE << >>)
        \o ident \o gap \o << sep >> \o gap
        \o << quotes[1] >> \o body \o << quotes[2] >>
        \o (IF loose THEN << ";", " " >> ELSE << >>)

SecretLines ==
    {AssignLine(loose, ident, sep, quotes, body) :
        loose \in BOOLEAN, ident \in SecretIdents, sep \in Seps,
        quotes \in QuotePairs, body \in LiteralBodies}
    \cup {LineApiKeyLiteral, LineApiKeyEnv, LineFiller}

CoreLines ==
    { LineApiKeyLiteral, LineFiller,
      AssignLine(TRUE, <<"a", "p", "i", "_", "k", "e", "y">>, "=", <<"'", "'">>,
                 <<"s", "k", "_", "l", "i", "v", "e", "_">> \o Run("a", MinKeyTail)),
      AssignLine(FALSE, WordPasswordUpper, ":", <<"\"", "\"">>, Run("a", MinSecretLen)) }

SampleCode == JoinLines(<< LineDbRun, LineAppGet, LineFiller, LineDbRun >>) \o << "\n" >>
SampleLineNumbers == 1..Len(SplitLines(SampleCode))

CalleeObjects ==
    { [type |-> "Identifier", name |-> "db"],
      [type |-> "Identifier", name |-> "database"],
      [type |-> "ThisExpression", name |-> Undefined] }
CalleeProperties ==
    {[type |-> "Identifier", name |-> m] : m \in DbMethods \cup {"query"}}
    \cup {[type |-> "StringLiteral", name |-> Undefined]}
Callees ==
    {[type |-> "Identifier", name |-> "query"]}
    \cup {[type |-> "MemberExpression", object |-> o, property |-> p] :
             o \in CalleeObjects, p \in CalleeProperties}

ArgString == [type |-> "StringLiteral"]
ArgArray == [type |-> "ArrayExpression"]
ArgBinary == [type |-> "BinaryExpression"]
ArgIdent == [type |-> "Identifier"]
ArgTemplate(n) == [type |-> "TemplateLiteral", expressions |-> n]
ArgLists ==
    { << >>, << ArgString >>, << ArgString, ArgArray >>, << ArgBinary >>,
      << ArgBinary, ArgArray >>, << ArgTemplate(0) >>, << ArgTemplate(1) >>,
      << ArgTemplate(2) >>, << ArgIdent >>, << ArgString, ArgBinary >> }

Loc(line) == [start |-> [line |-> line]]
Node(type, callee, arguments, line) ==
    [type |-> type, callee |-> callee, arguments |-> arguments, loc |-> Loc(line)]

Nodes ==
    {Node(type, callee, arguments, line) :
        type \in {"CallExpression", "OptionalCallExpression", "NewExpression"},
        callee \in Callees, arguments \in ArgLists, line \in SampleLineNumbers}

DbCallee(method) ==
    [type |-> "MemberExpression",
     object |-> [type |-> "Identifier", name |-> "db"],
     property |-> [type |-> "Identifier", name |-> method]]

CoreNodes ==
    { Node("CallExpression", DbCallee("get"), << ArgBinary >>, 1),
      Node("CallExpression", DbCallee("run"), << ArgTemplate(1) >>, 1),
      Node("CallExpression", DbCallee("run"), << ArgString, ArgArray >>, 1),
      Node("CallExpression", DbCallee("all"), << ArgBinary >>, 2) }

SeqsUpTo(S, n) == UNION {[1..k -> S] : k \in 0..n}

OneFile(code, ast) == << File(PathApp, code, TRUE, ast) >>
Text3(l1, l2, l3) == JoinLines(<< l1, l2, l3 >>) \o << "\n" >>
TwoFiles(l1, l2, p1, p2, n) ==
    << File(PathApp, JoinLines(<< l1, LineFiller >>), p1, << n >>),
       File(PathDb, JoinLines(<< LineDbRun, l2 >>), p2, << n >>) >>

\* the file lists SecurityAnalyzer.analyze is run on
SecInputs ==
    {OneFile(SampleCode, << n >>) : n \in Nodes}
    \cup {OneFile(SampleCode, ast) : ast \in SeqsUpTo(CoreNodes, MaxCalls)}
    \cup {OneFile(line, << >>) : line \in SecretLines}
    \cup {OneFile(Text3(LineFiller, l1, l2), << n >>) :
             l1 \in CoreLines, l2 \in CoreLines, n \in CoreNodes}
    \cup {TwoFiles(l1, l2, p1, p2, n) :
             l1 \in CoreLines, l2 \in CoreLines, p1 \in BOOLEAN, p2 \in BOOLEAN,
             n \in CoreNodes}
    \cup {<< UnreadableFile(PathApp), File(PathDb, JoinLines(<< LineDbRun, l >>), p, << n >>) >> :
             l \in CoreLines, p \in BOOLEAN, n \in CoreNodes}
    \cup {<< File(PathApp, JoinLines(<< LineDbRun, l >>), p, << n >>), UnreadableFile(PathDb) >> :
             l \in CoreLines, p \in BOOLEAN, n \in CoreNodes}

\* this.findings = [] : a new array, the arrays returned earlier keep their content
ResetFindingsKeep(findings) == findings

ResetFindings(findings) == << >>

\* A returned array is the array this.findings refers to (alias) until
\* this.findings is assigned a new array; from then on it keeps the content it had.
Detach(returned, findings) ==
    [i \in 1..Len(returned) |->
        IF returned[i].alias THEN [alias |-> FALSE, value |-> findings] ELSE returned[i]]

\* the content of the array returned by the i-th call of analyze
Returned(i) == IF secReturned[i].alias THEN secFindings ELSE secReturned[i].value

\* getSummary() with the warnings counted once more in place of the suggestions
getSummaryWarningTwice(findings) ==
    [total |-> Len(findings),
     critical |-> Len(getBySeverity(findings, "critical")),
     warning |-> Len(getBySeverity(findings, "warning")),
     info |-> Len(getBySeverity(findings, "warning"))]

\* getSummary()
getSummary(findings) ==
    [total |-> Len(findings),
     critical |-> Len(getBySeverity(findings, "critical")),
     warning |-> Len(getBySeverity(findings, "warning")),
     info |-> Len(getBySeverity(findings, "info"))]

NoSummary == [of |-> "none", run |-> 0, result |-> getSummary(<< >>)]

NoHistory ==
    /\ secReturned = << >>
    /\ structRuns = 0
    /\ summary = NoSummary

\* one run at a time: no other process works under cloned-repos
NoConcurrentRuns ==
    /\ runs = << >>
    /\ dirs = << >>

\* no CLI command is running (the analyzers are driven directly)
CliIdle ==
    /\ cmd = "none"
    /\ pc = "idle"
    /\ hasToken = FALSE
    /\ urlValid = FALSE
    /\ origin = [main |-> "none", prs |-> << >>, issues |-> << >>]
    /\ cloneDir = "absent"
    /\ workFiles = << >>
    /\ allFindings = << >>
    /\ openPRs = << >>
    /\ listedReviews = {}
    /\ issueCheck = "none"
    /\ prIdx = 1
    /\ prFiles = << >>
    /\ fixResults = << >>
    /\ committed = FALSE
    /\ printed = {}
    /\ remoteLog = << >>
    /\ error = "none"

(***************************************************************************)
(* SecurityAnalyzer.analyze, step by step.                                 *)
(***************************************************************************)
\* this.findings = []; const parsedFiles = await this.parser.parseFiles(filePaths)
SecAnalyzeBegin ==
    /\ secPc \in {"idle", "done"}
    /\ Len(secReturned) < MaxRuns
    /\ \E sameInstance \in BOOLEAN :
          secFindings' = ResetFindings(IF sameInstance THEN secFindings ELSE << >>)
    /\ secReturned' = Detach(secReturned, secFindings)
    /\ parsedFiles' = parseFiles(sourceFiles)
    /\ secIdx' = 1
    /\ secPc' = "loop"
    /\ UNCHANGED <<inputVars, structVars, structRuns, summary, cliVars>>

\* one iteration of for (const { ast, code, filePath } of parsedFiles)
SecAnalyzeFile ==
    /\ secPc = "loop"
    /\ secIdx <= Len(parsedFiles)
    /\ secFindings' = AnalyzeParsedFile(secFindings, parsedFiles[secIdx])
    /\ secIdx' = secIdx + 1
    /\ UNCHANGED <<inputVars, parsedFiles, secPc, structVars, histVars, cliVars>>

\* return this.findings
SecAnalyzeReturn ==
    /\ secPc = "loop"
    /\ secIdx > Len(parsedFiles)
    /\ secPc' = "done"
    /\ secReturned' = Append(secReturned, [alias |-> TRUE, value |-> << >>])
    /\ UNCHANGED <<inputVars, secFindings, parsedFiles, secIdx, structVars,
                   structRuns, summary, cliVars>>

\* SecurityAnalyzer.getSummary() between two calls of analyze
SecGetSummary ==
    /\ secPc \in {"idle", "done"}
    /\ summary' = [of |-> "security", run |-> Len(secReturned),
                   result |-> getSummary(secFindings)]
    /\ UNCHANGED <<inputVars, secVars, structVars, secReturned, structRuns, cliVars>>

SecInit ==
    /\ sourceFiles \in SecInputs
    /\ repoRoot = {}
    /\ gitignoreContent = << >>
    /\ secFindings = << >>
    /\ parsedFiles = << >>
    /\ secIdx = 1
    /\ secPc = "idle"
    /\ structFindings = << >>
    /\ structPc = "idle"
    /\ NoHistory
    /\ CliIdle
    /\ NoConcurrentRuns

SecNext == SecAnalyzeBegin \/ SecAnalyzeFile \/ SecAnalyzeReturn \/ SecGetSummary

SecSpec == SecInit /\ [][SecNext]_vars

(***************************************************************************)
(* Inputs of StructureAnalyzer.analyze: the entries of the repository      *)
(* root, the text of .gitignore and the texts of the source files.         *)
(***************************************************************************)
RootNames ==
    {recommendedFolders[k] : k \in DOMAIN recommendedFolders}
    \cup {essentialFiles[k].name : k \in DOMAIN essentialFiles}
    \cup {".env"}

GitignoreWithEnv ==
    JoinLines(<< <<"n", "o", "d", "e", "_", "m", "o", "d", "u", "l", "e", "s", "/">>,
                 <<".", "e", "n", "v">>,
                 <<"*", ".", "l", "o", "g">> >>) \o << "\n" >>
GitignoreWithEnvExample ==
    JoinLines(<< <<"d", "i", "s", "t", "/">>,
                 <<".", "e", "n", "v", ".", "e", "x", "a", "m", "p", "l", "e">> >>)
GitignoreWithoutEnv ==
    JoinLines(<< <<"n", "o", "d", "e", "_", "m", "o", "d", "u", "l", "e", "s", "/">>,
                 <<"*", ".", "l", "o", "g">> >>) \o << "\n" >>
GitignoreSplitEnv ==
    JoinLines(<< <<"e", "n", "v">>, <<".", "e", "n">>, <<"v">> >>)
GitignoreTexts ==
    { GitignoreWithEnv, GitignoreWithEnvExample, GitignoreWithoutEnv,
      GitignoreSplitEnv, << >> }

TextAppGet == <<"a", "p", "p", ".", "g", "e", "t", "(">>
TextAppPatch == <<" ", "a", "p", "p", ".", "p", "a", "t", "c", "h", "(", ")">>
TextRouterGet == <<"r", "o", "u", "t", "e", "r", ".", "g", "e", "t", "(">>
TextAppUse == <<"a", "p", "p", ".", "u", "s", "e", "(">>
TextDbRun == <<"d", "b", ".", "r", "u", "n", "(">>
TextDbExec == <<"x", "d", "b", ".", "e", "x", "e", "c", "(", "q", ")">>
TextDbQuery == <<"d", "b", ".", "q", "u", "e", "r", "y", "(">>
TextNone == <<"x">>

RouteTexts == {TextAppGet, TextAppPatch, TextRouterGet, TextAppUse, TextNone}
DbTexts == {TextDbRun, TextDbExec, TextDbQuery, TextNone}

\* a text of n >= 2 lines: the two given ones and filler lines; terminated says
\* whether the last line ends with a newline character
StructText(routeText, dbText, n, terminated) ==
    JoinLines(<< routeText, dbText >> \o [k \in 1..(n - 2) |-> TextNone])
    \o (IF terminated THEN << "\n" >> ELSE << >>)

LineNumbers ==
    Around(MonolithicFileLines) \cup Around(SingleFileAppLines)
    \cup {2, SingleFileAppLines + 10}

StructFiles ==
    {File(PathApp, StructText(r, d, n, t), p, << >>) :
        r \in RouteTexts, d \in DbTexts, n \in LineNumbers,
        t \in BOOLEAN, p \in BOOLEAN}

SecondFiles ==
    {File(PathDb, StructText(TextAppGet, d, n, TRUE), TRUE, << >>) :
        d \in {TextDbRun, TextNone},
        n \in {MonolithicFileLines, MonolithicFileLines + 1, SingleFileAppLines + 1}}

BigFiles ==
    {File(PathApp, StructText(TextAppGet, TextDbRun, n, FALSE), TRUE, << >>) :
        n \in {MonolithicFileLines + 1, SingleFileAppLines + 1}}

StructFileLists ==
    {<< >>}
    \cup {<< f >> : f \in StructFiles}
    \cup {<< f, g >> : f \in BigFiles, g \in SecondFiles}
    \cup {<< f, UnreadableFile(PathDb) >> : f \in BigFiles}
    \cup {<< UnreadableFile(PathApp) >>}

SmallFile == File(PathApp, StructText(TextAppGet, TextDbRun, 2, TRUE), TRUE, << >>)

(***************************************************************************)
(* StructureAnalyzer.analyze, step by step (each check is awaited).        *)
(***************************************************************************)
\* this.findings = []
StructAnalyzeBegin ==
    /\ structPc \in {"idle", "done"}
    /\ structRuns < MaxRuns
    /\ structFindings' = << >>
    /\ structPc' = "folders"
    /\ UNCHANGED <<inputVars, secVars, histVars, cliVars>>

StructCheckFolders ==
    /\ structPc = "folders"
    /\ structFindings' = checkFolderStructure(structFindings, repoRoot, repoPath)
    /\ structPc' = "separation"
    /\ UNCHANGED <<inputVars, secVars, histVars, cliVars>>

StructCheckSeparation ==
    /\ structPc = "separation"
    /\ IF ReadFails(sourceFiles)
       THEN /\ structFindings' =
                   checkSeparationOfConcerns(structFindings, ReadBefore(sourceFiles))
            /\ structPc' = "thrown"
       ELSE /\ structFindings' = checkSeparationOfConcerns(structFindings, sourceFiles)
            /\ structPc' = "essential"
    /\ UNCHANGED <<inputVars, secVars, histVars, cliVars>>

StructCheckEssential ==
    /\ structPc = "essential"
    /\ structFindings' =
          checkEssentialFiles(structFindings, repoRoot, gitignoreContent, repoPath)
    /\ structPc' = "monolithic"
    /\ UNCHANGED <<inputVars, secVars, histVars, cliVars>>

\* the last check, then return this.findings
StructCheckMonolithic ==
    /\ structPc = "monolithic"
    /\ structFindings' = checkMonolithicStructure(structFindings, sourceFiles)
    /\ structPc' = "done"
    /\ structRuns' = structRuns + 1
    /\ UNCHANGED <<inputVars, secVars, secReturned, summary, cliVars>>

\* StructureAnalyzer.getSummary() between two calls of analyze
StructGetSummary ==
    /\ structPc \in {"idle", "done"}
    /\ summary' = [of |-> "structure", run |-> structRuns,
                   result |-> getSummary(structFindings)]
    /\ UNCHANGED <<inputVars, secVars, structVars, secReturned, structRuns, cliVars>>

StructInit ==
    /\ \/ /\ sourceFiles = << SmallFile >>
          /\ repoRoot \in SUBSET RootNames
          /\ gitignoreContent \in GitignoreTexts
       \/ /\ sourceFiles \in StructFileLists
          /\ repoRoot \in {{}, RootNames}
          /\ gitignoreContent = GitignoreWithEnv
    /\ secFindings = << >>
    /\ parsedFiles = << >>
    /\ secIdx = 1
    /\ secPc = "idle"
    /\ structFindings = << >>
    /\ structPc = "idle"
    /\ NoHistory
    /\ CliIdle
    /\ NoConcurrentRuns

StructNext ==
    \/ StructAnalyzeBegin
    \/ StructCheckFolders
    \/ StructCheckSeparation
    \/ StructCheckEssential
    \/ StructCheckMonolithic
    \/ StructGetSummary

StructSpec == StructInit /\ [][StructNext]_vars

(***************************************************************************)
(* Properties of SecurityAnalyzer.analyze (checked under SecSpec).         *)
(***************************************************************************)
FindingsAt(findings, type, path, line) ==
    {i \in DOMAIN findings :
        /\ findings[i].type = type
        /\ findings[i].file = path
        /\ findings[i].line = line}

\* the calls the unsafe-dynamic-query rule is stated to flag
ClaimedUnsafeQuery(node) ==
    /\ node.type = "CallExpression"
    /\ node.callee.type = "MemberExpression"
    /\ node.callee.object.name = "db"
    /\ node.callee.property.name \in {"run", "all", "get", "exec"}
    /\ Len(node.arguments) >= 1
    /\ \/ node.arguments[1].type = "BinaryExpression"
       \/ /\ node.arguments[1].type = "TemplateLiteral"
          /\ node.arguments[1].expressions >= 1

ClaimedUnsafeAt(file, line) ==
    {n \in DOMAIN file.ast :
        ClaimedUnsafeQuery(file.ast[n]) /\ file.ast[n].loc.start.line = line}

LocLines(file) == {file.ast[n].loc.start.line : n \in DOMAIN file.ast}

\* C2: for every call expression of a parsed file exactly one critical
\* unsafe-dynamic-query (sql-injection) finding with the call's line is emitted
\* iff the callee is db.run/all/get/exec and the first argument is a binary
\* expression or a template literal with an interpolation; every other call,
\* and every file that does not parse, yields none.
C2_UnsafeQueryFindings ==
    secPc = "done" =>
        /\ \A k \in DOMAIN sourceFiles :
              \A line \in LocLines(sourceFiles[k]) :
                 Cardinality(FindingsAt(secFindings, "sql-injection",
                                        sourceFiles[k].filePath, line))
                   = IF sourceFiles[k].parses
                     THEN Cardinality(ClaimedUnsafeAt(sourceFiles[k], line))
                     ELSE 0
        /\ \A i \in DOMAIN secFindings :
              secFindings[i].type = "sql-injection" =>
                 /\ secFindings[i].severity = "critical"
                 /\ \E k \in DOMAIN sourceFiles :
                       /\ sourceFiles[k].parses
                       /\ sourceFiles[k].filePath = secFindings[i].file
                       /\ ClaimedUnsafeAt(sourceFiles[k], secFindings[i].line) # {}

\* a parsed file with a flagged call and a call with a template literal that
\* interpolates nothing went through the analysis
C2_Witness ==
    /\ secPc = "done"
    /\ Len(sourceFiles) = 1
    /\ \E n \in DOMAIN sourceFiles[1].ast :
          /\ ClaimedUnsafeQuery(sourceFiles[1].ast[n])
          /\ sourceFiles[1].ast[n].arguments[1].type = "TemplateLiteral"
    /\ \E n \in DOMAIN sourceFiles[1].ast :
          /\ sourceFiles[1].ast[n].type = "CallExpression"
          /\ sourceFiles[1].ast[n].callee = DbCallee("run")
          /\ sourceFiles[1].ast[n].arguments = << ArgString, ArgArray >>
    /\ Len(secFindings) = 1

MatchCount(line) ==
    Cardinality({k \in DOMAIN secretPatterns : PatternTest(secretPatterns[k], line)})

ExposedSecrets == {i \in DOMAIN secFindings : secFindings[i].type = "exposed-secret"}

\* C3: for every line of every parsed file the number of exposed-secret findings
\* equals the number of the three patterns matching it; each is critical, carries
\* the 1-based line index and the trimmed line; the literal sk_live_ line yields
\* exactly one finding and the process.env line none.
C3_SecretFindingsPerLine ==
    secPc = "done" =>
        /\ \A k \in DOMAIN sourceFiles :
              LET file == sourceFiles[k]
                  lines == SplitLines(file.code)
              IN  \A n \in DOMAIN lines :
                     LET at == FindingsAt(secFindings, "exposed-secret", file.filePath, n)
                     IN  /\ Cardinality(at) = IF file.parses THEN MatchCount(lines[n]) ELSE 0
                         /\ \A i \in at :
                               /\ secFindings[i].severity = "critical"
                               /\ secFindings[i].snippet = Trim(lines[n])
                               /\ Len(secFindings[i].snippet) > 0
                               /\ ~IsSpace(secFindings[i].snippet[1])
                               /\ ~IsSpace(secFindings[i].snippet[Len(secFindings[i].snippet)])
        /\ \A i \in ExposedSecrets :
              \E k \in DOMAIN sourceFiles :
                 /\ sourceFiles[k].filePath = secFindings[i].file
                 /\ secFindings[i].line \in 1..Len(SplitLines(sourceFiles[k].code))
        /\ (Len(sourceFiles) = 1 /\ sourceFiles[1].code = LineApiKeyLiteral)
              => Cardinality(ExposedSecrets) = 1
        /\ (Len(sourceFiles) = 1 /\ sourceFiles[1].code = LineApiKeyEnv)
              => ExposedSecrets = {}

\* a parsed file in which a line after the first matches two patterns, and so
\* has two findings, was analysed
C3_Witness ==
    /\ secPc = "done"
    /\ \E k \in DOMAIN sourceFiles :
          \E n \in 2..Len(SplitLines(sourceFiles[k].code)) :
             /\ MatchCount(SplitLines(sourceFiles[k].code)[n]) = 2
             /\ Cardinality(FindingsAt(secFindings, "exposed-secret",
                                       sourceFiles[k].filePath, n)) = 2

GenericFindingsAt(path, line) ==
    {i \in FindingsAt(secFindings, "exposed-secret", path, line) :
        secFindings[i].message[2] = "Generic Secret"}

\* C4 as stated: a line assigning a quoted literal of at least 10 word characters
\* to password, secret, token or api_key written in any letter case produces an
\* exposed-secret finding.
C4_CaseInsensitiveIdentifier ==
    secPc = "done" =>
        \A k \in DOMAIN sourceFiles :
           LET file == sourceFiles[k]
               lines == SplitLines(file.code)
           IN  \A n \in DOMAIN lines :
                  (file.parses /\ AssignmentPattern(ToLower(lines[n]), SecretWords))
                     => FindingsAt(secFindings, "exposed-secret", file.filePath, n) # {}

LinePasswordLower ==
    AssignLine(FALSE, WordPassword, "=", <<"\"", "\"">>, Run("a", MinSecretLen))
LinePasswordUpper ==
    AssignLine(FALSE, WordPasswordUpper, "=", <<"\"", "\"">>, Run("a", MinSecretLen))
LineTokenCapital ==
    AssignLine(TRUE, WordTokenCapital, ":", <<"'", "'">>, Run("a", MinSecretLen))

\* C4 amended: the generic pattern matches the identifier in lower case only: a
\* line has a Generic Secret finding iff a lower-case password, secret, token or
\* api_key is followed by ':' or '=' and a quoted literal of at least 10 word
\* characters; the same line with PASSWORD or Token gets none.
C4_LowerCaseIdentifierOnly ==
    secPc = "done" =>
        /\ \A k \in DOMAIN sourceFiles :
              LET file == sourceFiles[k]
                  lines == SplitLines(file.code)
              IN  \A n \in DOMAIN lines :
                     Cardinality(GenericFindingsAt(file.filePath, n))
                       = IF file.parses /\ AssignmentPattern(lines[n], SecretWords)
                         THEN 1 ELSE 0
        /\ (Len(sourceFiles) = 1 /\ sourceFiles[1].code = LinePasswordLower)
              => Cardinality(ExposedSecrets) = 1
        /\ (Len(sourceFiles) = 1
              /\ sourceFiles[1].code \in {LinePasswordUpper, LineTokenCapital})
              => ExposedSecrets = {}

\* the analysis of the line PASSWORD="aaaaaaaaaa" ended without a finding
C4_Witness ==
    /\ secPc = "done"
    /\ Len(sourceFiles) = 1
    /\ sourceFiles[1].code = LinePasswordUpper
    /\ AssignmentPattern(ToLower(sourceFiles[1].code), SecretWords)
    /\ secFindings = << >>

(***************************************************************************)
(* Properties of StructureAnalyzer.analyze (checked under StructSpec).     *)
(***************************************************************************)
OfType(findings, type) == {i \in DOMAIN findings : findings[i].type = type}

ConventionalFolders == {"routes", "controllers", "models", "middleware", "config"}
AbsentFolders == ConventionalFolders \ repoRoot

\* C5: for every subset of the five conventional folders present at the root
\* exactly one warning missing-folder-structure finding, listing exactly the
\* absent folders, is emitted when three or more are absent, and none when two
\* or fewer are absent.
C5_MissingFolderStructure ==
    structPc = "done" =>
        LET found == OfType(structFindings, "missing-folder-structure")
        IN  IF Cardinality(AbsentFolders) >= 3
            THEN /\ Cardinality(found) = 1
                 /\ \A i \in found :
                       LET listed == structFindings[i].description[4]
                       IN  /\ structFindings[i].severity = "warning"
                           /\ {listed[k] : k \in DOMAIN listed} = AbsentFolders
                           /\ Len(listed) = Cardinality(AbsentFolders)
                           /\ structFindings[i].description[2] = Cardinality(AbsentFolders)
            ELSE found = {}

\* the analysis ended with exactly three folders absent and a finding for them
C5_Witness ==
    /\ structPc = "done"
    /\ Cardinality(AbsentFolders) = 3
    /\ OfType(structFindings, "missing-folder-structure") # {}

\* the number of lines of a text: its newline-terminated lines, and the last
\* line when it is not empty and has no newline after it
TextLines(code) ==
    Cardinality({k \in DOMAIN code : code[k] = "\n"})
    + (IF Len(code) > 0 /\ code[Len(code)] # "\n" THEN 1 ELSE 0)

\* C6: a single-file-app finding is emitted iff the source file list holds
\* exactly one file and that file has more than 150 lines, whether or not its
\* last line ends with a newline character.
C6_SingleFileApp ==
    structPc = "done" =>
        (OfType(structFindings, "single-file-app") # {}
            <=> (Len(sourceFiles) = 1 /\ TextLines(sourceFiles[1].code) > 150))

MonolithicFindingsOf(path) ==
    {i \in OfType(structFindings, "monolithic-file") : structFindings[i].file = path}

\* C7: for every source file, parsed or not, exactly one warning monolithic-file
\* finding is emitted iff its text has both the route shape and the database
\* shape and more than 100 lines; otherwise none.
C7_MonolithicFile ==
    structPc = "done" =>
        \A k \in DOMAIN sourceFiles :
           LET file == sourceFiles[k]
           IN  /\ Cardinality(MonolithicFindingsOf(file.filePath))
                    = IF RoutePattern(file.code) /\ DbPattern(file.code)
                           /\ TextLines(file.code) > 100
                      THEN 1 ELSE 0
               /\ \A i \in MonolithicFindingsOf(file.filePath) :
                     structFindings[i].severity = "warning"

ClaimedSeverity ==
    [name \in {".env.example", ".gitignore", "README.md", "package.json"} |->
        CASE name = ".env.example" -> "warning"
          [] name = ".gitignore" -> "warning"
          [] name = "README.md" -> "info"
          [] name = "package.json" -> "critical"]

MissingFindingsOf(name) ==
    {i \in OfType(structFindings, "missing-essential-file") :
        structFindings[i].message = << "Missing", name >>}

\* C8: for each of the four essential root files exactly one
\* missing-essential-file finding is emitted iff the file is absent, with
\* severity warning for .env.example and .gitignore, info for README.md and
\* critical for package.json.
C8_MissingEssentialFiles ==
    structPc = "done" =>
        /\ \A name \in DOMAIN ClaimedSeverity :
              /\ Cardinality(MissingFindingsOf(name)) = IF name \in repoRoot THEN 0 ELSE 1
              /\ \A i \in MissingFindingsOf(name) :
                    structFindings[i].severity = ClaimedSeverity[name]
        /\ \A i \in OfType(structFindings, "missing-essential-file") :
              \E name \in DOMAIN ClaimedSeverity : i \in MissingFindingsOf(name)

\* the analysis ended with README.md absent, package.json present and a finding
\* for the absent file
C8_Witness ==
    /\ structPc = "done"
    /\ "README.md" \notin repoRoot
    /\ "package.json" \in repoRoot
    /\ MissingFindingsOf("README.md") # {}
    /\ MissingFindingsOf("package.json") = {}

\* the .gitignore texts of the model that contain the substring .env
GitignoreMentionsEnv == gitignoreContent \in {GitignoreWithEnv, GitignoreWithEnvExample}

\* C9: a critical env-not-ignored finding is emitted iff .env and .gitignore
\* both exist at the root and the .gitignore text does not contain ".env"; none
\* when .gitignore is absent or .env is absent.
C9_EnvNotIgnored ==
    structPc = "done" =>
        LET found == OfType(structFindings, "env-not-ignored")
        IN  IF ".env" \in repoRoot /\ ".gitignore" \in repoRoot /\ ~GitignoreMentionsEnv
            THEN /\ Cardinality(found) = 1
                 /\ \A i \in found : structFindings[i].severity = "critical"
            ELSE found = {}

\* the analysis ended with .env present and a .gitignore that holds "env" and
\* ".en" but never ".env", and the finding was emitted
C9_Witness ==
    /\ structPc = "done"
    /\ ".env" \in repoRoot
    /\ ".gitignore" \in repoRoot
    /\ gitignoreContent = GitignoreSplitEnv
    /\ OfType(structFindings, "env-not-ignored") # {}


(***************************************************************************)
(* The command-line tool.  A run executes one command function; every      *)
(* awaited call is one step, and a call to the file system, to git or to   *)
(* the remote service either returns or throws.                            *)
(***************************************************************************)
Commands == {"analyze", "issue", "review", "fix"}

\* process.env.GITHUB_USERNAME, the account the tool acts as
Bot == "api-checker-bot"
Contributor == "alice"

MaxPRs == 2

\* const allFindings = [...securityFindings, ...structureFindings], with duplicates
\* dropped (not what the code does)
RECURSIVE Dedup(_)
Dedup(findings) ==
    IF findings = << >> THEN << >>
    ELSE LET rest == Dedup(SubSeq(findings, 1, Len(findings) - 1))
             last == findings[Len(findings)]
         IN  IF \E i \in 1..Len(rest) : rest[i] = last THEN rest ELSE Append(rest, last)

CombineFindingsDedup(securityFindings, structureFindings) ==
    Dedup(securityFindings \o structureFindings)

\* const allFindings = [...securityFindings, ...structureFindings]
CombineFindings(securityFindings, structureFindings) ==
    securityFindings \o structureFindings

\* the counts in the issue title and in the review summary
SeverityCounts(findings) ==
    << Len(getBySeverity(findings, "critical")),
       Len(getBySeverity(findings, "warning")),
       Len(getBySeverity(findings, "info")) >>

\* Contents a branch of the remote repository can have.
TreeIds == {"clean", "dup", "minor", "secrets", "locked"}

\* Source lines with a database call or a secret, for the fix command.
\*   db.get("SELECT " + id)
LineDbGetConcat ==
    <<" ", " ", "d", "b", ".", "g", "e", "t", "(", "\"", "S", "E", "L", "E", "C", "T",
      " ", "\"", " ", "+", " ", "i", "d", ")">>

\* db.all('SELECT ' + name)
LineDbAllConcat ==
    <<"d", "b", ".", "a", "l", "l", "(", "'", "S", "E", "L", "E", "C", "T", " ", "'",
      " ", "+", " ", "n", "a", "m", "e", ")">>

\*   db.run((backtick)SELECT ${id}(backtick))
LineDbRunTemplate ==
    <<" ", " ", "d", "b", ".", "r", "u", "n", "(", Backtick, "S", "E", "L", "E", "C",
      "T", " ", "$", "{", "i", "d", "}", Backtick, ")">>

\* db.exec("DROP " + t)
LineDbExecConcat ==
    <<"d", "b", ".", "e", "x", "e", "c", "(", "\"", "D", "R", "O", "P", " ", "\"", " ",
      "+", " ", "t", ")">>

\* db.get("a" + (backtick)${x}(backtick))
LineDbGetBoth ==
    <<"d", "b", ".", "g", "e", "t", "(", "\"", "a", "\"", " ", "+", " ", Backtick, "$",
      "{", "x", "}", Backtick, ")">>

\* db.run("SELECT ?", [id])
LineDbRunSafe ==
    <<"d", "b", ".", "r", "u", "n", "(", "\"", "S", "E", "L", "E", "C", "T", " ", "?",
      "\"", ",", " ", "[", "i", "d", "]", ")">>

\*   let password = 'aaaaaaaaaa'
LinePasswordLet ==
    <<" ", " ", "l", "e", "t", " ", "p", "a", "s", "s", "w", "o", "r", "d", " ", "=",
      " ", "'", "a", "a", "a", "a", "a", "a", "a", "a", "a", "a", "'">>

\* config.token = "aaaaaaaaaa"
LineTokenMember ==
    <<"c", "o", "n", "f", "i", "g", ".", "t", "o", "k", "e", "n", " ", "=", " ", "\"",
      "a", "a", "a", "a", "a", "a", "a", "a", "a", "a", "\"">>

\*   password: "aaaaaaaaaa",
LinePasswordProperty ==
    <<" ", " ", "p", "a", "s", "s", "w", "o", "r", "d", ":", " ", "\"", "a", "a", "a",
      "a", "a", "a", "a", "a", "a", "a", "\"", ",">>

\* the call node the parser yields for a line with a database call
NodesOfLine(line, number) ==
    CASE line = LineDbGetConcat ->
            << Node("CallExpression", DbCallee("get"), << ArgBinary >>, number) >>
      [] line = LineDbAllConcat ->
            << Node("CallExpression", DbCallee("all"), << ArgBinary >>, number) >>
      [] line = LineDbRunTemplate ->
            << Node("CallExpression", DbCallee("run"), << ArgTemplate(1) >>, number) >>
      [] line = LineDbExecConcat ->
            << Node("CallExpression", DbCallee("exec"), << ArgBinary >>, number) >>
      [] line = LineDbGetBoth ->
            << Node("CallExpression", DbCallee("get"), << ArgBinary >>, number) >>
      [] line = LineDbRun ->
            << Node("CallExpression", DbCallee("run"), << ArgBinary >>, number) >>
      [] line = LineDbRunSafe ->
            << Node("CallExpression", DbCallee("run"), << ArgString, ArgArray >>, number) >>
      [] OTHER -> << >>

\* the file app.js made of the given lines, each ended by a newline
SourceFile(lines) ==
    << File(PathApp, JoinLines(lines) \o << "\n" >>, TRUE,
            Flatten([k \in 1..Len(lines) |-> NodesOfLine(lines[k], k)])) >>

\* the default branches a fix run is tried on, besides those above
FixTreeIds == {"sqli", "sqliBoth", "sqliSecret", "passwords"}

FixTreeLines(id) ==
    CASE id = "sqli" -> << LineDbGetConcat, LineFiller, LineFiller, LineDbRunTemplate >>
      [] id = "sqliBoth" -> << LineFiller, LineDbGetBoth, LineDbRun >>
      [] id = "sqliSecret" -> << LineDbAllConcat, LineApiKeyLiteral, LineDbExecConcat >>
      [] id = "passwords" -> << LinePasswordLet, LineTokenMember, LinePasswordProperty >>

CleanFiles == OneFile(Text3(LineFiller, LineFiller, LineFiller), << >>)

UnsafeRunNode == Node("CallExpression", DbCallee("run"), << ArgTemplate(1) >>, 1)

Tree(id) ==
    CASE id \in FixTreeIds ->
            [root |-> RootNames \ {".env"}, gitignore |-> GitignoreWithEnv,
             files |-> SourceFile(FixTreeLines(id))]
      [] id = "clean" ->
            [root |-> RootNames \ {".env"}, gitignore |-> GitignoreWithEnv,
             files |-> CleanFiles]
      [] id = "dup" ->
            [root |-> {}, gitignore |-> << >>,
             files |-> OneFile(SampleCode, << UnsafeRunNode, UnsafeRunNode >>)]
      [] id = "stale" ->
            [root |-> {"legacy.js"}, gitignore |-> << >>,
             files |-> OneFile(SampleCode, << UnsafeRunNode, UnsafeRunNode >>)
                       \o << File(PathLegacy, SampleCode, TRUE, << UnsafeRunNode >>) >>]
      [] id = "minor" ->
            [root |-> RootNames \ {".env", "README.md", ".gitignore"}, gitignore |-> << >>,
             files |-> CleanFiles]
      [] id = "secrets" ->
            [root |-> RootNames, gitignore |-> GitignoreWithoutEnv,
             files |-> OneFile(Text3(LineApiKeyLiteral, LineFiller, LineFiller), << >>)]
      [] id = "locked" ->
            [root |-> RootNames \ {".env"}, gitignore |-> GitignoreWithEnv,
             files |-> OneFile(Text3(LineApiKeyLiteral, LineFiller, LineFiller), << >>)
                       \o << UnreadableFile(PathDb) >>]

TreeFindings(id) ==
    CombineFindings(SecurityAnalyze(Tree(id).files),
                    StructureAnalyze(Tree(id).root, Tree(id).gitignore, repoPath,
                                     Tree(id).files))

\* Pull requests of the remote repository.
\* [files] are the changed files pulls.listFiles returns, paths relative to the
\* repository root
PR(state, author, reviews, head, files) ==
    [state |-> state, user |-> author, reviews |-> reviews, head |-> head,
     files |-> files]

ChangedFile(path) == [filename |-> path]

ChangedApp == << ChangedFile(<< "app.js" >>) >>
ChangedSrc == << ChangedFile(<< "src", "db.js" >>), ChangedFile(<< "src", "app.js" >>) >>
ChangedOther == << ChangedFile(<< "lib", "mydb.js" >>) >>

PRKinds ==
    { PR("open", Bot, << >>, "secrets", ChangedApp),
      PR("closed", Contributor, << >>, "secrets", ChangedApp),
      PR("open", Contributor, << Bot >>, "secrets", ChangedApp),
      PR("open", Contributor, << Contributor >>, "clean", ChangedApp),
      PR("open", Contributor, << >>, "minor", ChangedApp),
      PR("open", Contributor, << >>, "secrets", ChangedApp),
      PR("open", Contributor, << >>, "secrets", ChangedSrc),
      PR("open", Contributor, << >>, "secrets", ChangedOther) }

Numbered(prs) ==
    [i \in 1..Len(prs) |->
        [number |-> i, state |-> prs[i].state, user |-> prs[i].user,
         reviews |-> prs[i].reviews, head |-> prs[i].head, files |-> prs[i].files]]

PRLists == {Numbered(prs) : prs \in SeqsUpTo(PRKinds, MaxPRs)}

\* titles of the open issues the account has created on the repository
IssueLists(main) ==
    { << >>, << SeverityCounts(TreeFindings(main)) >>, << <<0, 0, 1>> >> }

(***************************************************************************)
(* ReviewManager.mapFindingsToPRComments.  A changed file of a pull        *)
(* request is [filename], the path relative to the repository root as a    *)
(* sequence of segments; names are compared as texts.                      *)
(***************************************************************************)
\* the characters of the file and folder names in use
Chars(name) ==
    CASE name = "app.js" -> <<"a", "p", "p", ".", "j", "s">>
      [] name = "db.js" -> <<"d", "b", ".", "j", "s">>
      [] name = "mydb.js" -> <<"m", "y", "d", "b", ".", "j", "s">>
      [] name = "src" -> <<"s", "r", "c">>
      [] name = "lib" -> <<"l", "i", "b">>
      [] name = "" -> << >>

\* a path as a text, its segments joined by "/"
PathChars(path) ==
    Flatten([k \in 1..Len(path) |->
                IF k = 1 THEN Chars(path[k]) ELSE << "/" >> \o Chars(path[k])])

\* String.prototype.endsWith
EndsWith(text, suffix) ==
    /\ Len(suffix) <= Len(text)
    /\ SubSeq(text, Len(text) - Len(suffix) + 1, Len(text)) = suffix

\* extractFileName: the part after the last "/"
extractFileName(fullPath) ==
    IF Len(fullPath) = 0 THEN "" ELSE fullPath[Len(fullPath)]

\* Number.NaN
NaN == "NaN"

\* the line of a finding is a text, not a number
IsText(line) == ToString(line) \in {ToString("N/A"), ToString("unknown"), ToString("")}

\* !finding.line
Falsy(line) ==
    IF IsText(line) THEN ToString(line) = ToString("") ELSE line = 0

\* parseInt(finding.line): none of the texts starts with a digit
parseInt(line) == IF IsText(line) THEN NaN ELSE line

\* prFiles.find((f) => f.filename === fileName || f.filename.endsWith(fileName))
FindPRFile(changed, fileName) ==
    LET matches == {k \in 1..Len(changed) :
                       \/ PathChars(changed[k].filename) = Chars(fileName)
                       \/ EndsWith(PathChars(changed[k].filename), Chars(fileName))}
    IN  IF matches = {} THEN Null
        ELSE changed[CHOOSE k \in matches : \A j \in matches : k <= j]

\* the comment of one finding, or none: the line test with "unknown" skipped too
CommentsOfFindingSkipUnknown(finding, changed) ==
    IF IsText(finding.line) \/ Falsy(finding.line) THEN << >>
    ELSE LET prFile == FindPRFile(changed, extractFileName(finding.file))
         IN  IF prFile = Null THEN << >>
             ELSE << [path |-> prFile.filename, line |-> parseInt(finding.line),
                      side |-> "RIGHT", body |-> finding.message] >>

\* one iteration of for (const finding of findings)
CommentsOfFinding(finding, changed) ==
    IF ToString(finding.line) = ToString("N/A") \/ Falsy(finding.line) THEN << >>
    ELSE LET prFile == FindPRFile(changed, extractFileName(finding.file))
         IN  IF prFile = Null THEN << >>
             ELSE << [path |-> prFile.filename, line |-> parseInt(finding.line),
                      side |-> "RIGHT", body |-> finding.message] >>

mapFindingsToPRComments(findings, changed) ==
    Flatten([k \in 1..Len(findings) |-> CommentsOfFinding(findings[k], changed)])

(***************************************************************************)
(* PullRequestManager: the source transformations of createFixPR.          *)
(***************************************************************************)
\* // TODO: Fix SQL injection vulnerability
TodoHeading ==
    <<"/", "/", " ", "T", "O", "D", "O", ":", " ", "F", "i", "x", " ", "S", "Q", "L",
      " ", "i", "n", "j", "e", "c", "t", "i", "o", "n", " ", "v", "u", "l", "n", "e",
      "r", "a", "b", "i", "l", "i", "t", "y">>

\* // Change to parameterized query:
TodoConcat ==
    <<"/", "/", " ", "C", "h", "a", "n", "g", "e", " ", "t", "o", " ", "p", "a", "r",
      "a", "m", "e", "t", "e", "r", "i", "z", "e", "d", " ", "q", "u", "e", "r", "y",
      ":">>

\* // Replace template literal with parameterized query:
TodoTemplate ==
    <<"/", "/", " ", "R", "e", "p", "l", "a", "c", "e", " ", "t", "e", "m", "p", "l",
      "a", "t", "e", " ", "l", "i", "t", "e", "r", "a", "l", " ", "w", "i", "t", "h",
      " ", "p", "a", "r", "a", "m", "e", "t", "e", "r", "i", "z", "e", "d", " ", "q",
      "u", "e", "r", "y", ":">>

\* // db.run("SELECT ... WHERE id = ?", [userId], callback)
TodoExample ==
    <<"/", "/", " ", "d", "b", ".", "r", "u", "n", "(", "\"", "S", "E", "L", "E", "C",
      "T", " ", ".", ".", ".", " ", "W", "H", "E", "R", "E", " ", "i", "d", " ", "=",
      " ", "?", "\"", ",", " ", "[", "u", "s", "e", "r", "I", "d", "]", ",", " ", "c",
      "a", "l", "l", "b", "a", "c", "k", ")">>

\*  // (warning sign) SECURITY: Do not hardcode secrets
SecretSuffix ==
    <<" ", "/", "/", " ", WarningSign, " ", "S", "E", "C", "U", "R", "I", "T", "Y",
      ":", " ", "D", "o", " ", "n", "o", "t", " ", "h", "a", "r", "d", "c", "o", "d",
      "e", " ", "s", "e", "c", "r", "e", "t", "s">>

\*  // (check mark) Fixed: Use environment variable
EnvSuffix ==
    <<" ", "/", "/", " ", CheckMark, " ", "F", "i", "x", "e", "d", ":", " ", "U", "s",
      "e", " ", "e", "n", "v", "i", "r", "o", "n", "m", "e", "n", "t", " ", "v", "a",
      "r", "i", "a", "b", "l", "e">>

\*  = process.env.
ProcessEnv ==
    <<" ", "=", " ", "p", "r", "o", "c", "e", "s", "s", ".", "e", "n", "v", ".">>

LitDbRun == <<"d", "b", ".", "r", "u", "n">>
LitDbAll == <<"d", "b", ".", "a", "l", "l">>
LitDbGet == <<"d", "b", ".", "g", "e", "t">>
LitConst == <<"c", "o", "n", "s", "t">>
LitLet == <<"l", "e", "t">>
LitVar == <<"v", "a", "r">>
DeclarationWords == {LitConst, LitLet, LitVar}

\* ["'(backtick)]
IsAnyQuote(c) == IsQuote(c) \/ c = Backtick

\* problematicLine.match(/^\s*/)[0]
Indent(line) ==
    LET n == CHOOSE n \in 0..Len(line) :
                 /\ \A k \in 1..n : IsSpace(line[k])
                 /\ (n = Len(line) \/ ~IsSpace(line[n + 1]))
    IN  SubSeq(line, 1, n)

\* problematicLine.match(/["'(backtick)](.*?)["'(backtick)]\s*\+/s) finds a match
ConcatMatch(line) ==
    \E i \in 1..Len(line) :
        /\ IsAnyQuote(line[i])
        /\ \E j \in (i + 1)..Len(line) :
              /\ IsAnyQuote(line[j])
              /\ \E p \in (j + 1)..Len(line) :
                    /\ line[p] = "+"
                    /\ \A k \in (j + 1)..(p - 1) : IsSpace(line[k])

\* lines.splice(index, 0, ...items) with index within the array
\* lines.splice(index, 1, ...items): the element at index is replaced
SpliceOver(ls, index, items) ==
    SubSeq(ls, 1, index) \o items \o SubSeq(ls, index + 2, Len(ls))

Splice(ls, index, items) ==
    SubSeq(ls, 1, index) \o items \o SubSeq(ls, index + 1, Len(ls))

\* the three comment lines of one fix pattern
TodoBlock(indent, second) ==
    << indent \o TodoHeading, indent \o second, indent \o TodoExample >>

\* the first pattern of fixSQLInjection
IsConcatPattern(line) ==
    /\ Includes(line, LitDbRun) \/ Includes(line, LitDbAll) \/ Includes(line, LitDbGet)
    /\ ConcatMatch(line)

\* the second pattern of fixSQLInjection
IsTemplatePattern(line) ==
    Includes(line, << Backtick >>) /\ Includes(line, << "$", "{" >>)

\* fixSQLInjection on the text of finding.file: the new text and the value
\* returned.  A file that cannot be read and a line beyond the file
\* (problematicLine undefined) end in the catch block.
fixSQLInjection(readable, content, line) ==
    LET lines == SplitLines(content)
        lineIndex == line - 1
    IN  IF ~readable \/ lineIndex < 0 \/ lineIndex >= Len(lines)
        THEN [content |-> content, fixed |-> FALSE]
        ELSE LET problematicLine == lines[lineIndex + 1]
                 indent == Indent(problematicLine)
                 first == IF IsConcatPattern(problematicLine)
                          THEN Splice(lines, lineIndex, TodoBlock(indent, TodoConcat))
                          ELSE lines
                 second == IF IsTemplatePattern(problematicLine)
                           THEN Splice(first, lineIndex, TodoBlock(indent, TodoTemplate))
                           ELSE first
             IN  IF IsConcatPattern(problematicLine) \/ IsTemplatePattern(problematicLine)
                 THEN [content |-> JoinLines(second), fixed |-> TRUE]
                 ELSE [content |-> content, fixed |-> FALSE]

\* the positions at which /(?:const|let|var)\s+(\w+)/ matches
DeclarationStarts(line) ==
    {i \in 1..Len(line) :
        \E word \in DeclarationWords :
            /\ SubAt(line, i, word)
            /\ LET j == i + Len(word)
               IN  /\ j <= Len(line)
                   /\ IsSpace(line[j])
                   /\ \E w \in (j + 1)..Len(line) :
                         /\ IsWordChar(line[w])
                         /\ \A k \in j..(w - 1) : IsSpace(line[k])}

\* the longest run of word characters starting at position w
WordAt(line, w) ==
    LET e == CHOOSE e \in w..Len(line) :
                 /\ \A k \in w..e : IsWordChar(line[k])
                 /\ (e = Len(line) \/ ~IsWordChar(line[e + 1]))
    IN  SubSeq(line, w, e)

\* varMatch[1] of the leftmost match (there is one)
VarName(line) ==
    LET i == CHOOSE i \in DeclarationStarts(line) :
                 \A j \in DeclarationStarts(line) : i <= j
        word == CHOOSE word \in DeclarationWords : SubAt(line, i, word)
        j == i + Len(word)
        w == CHOOSE w \in (j + 1)..Len(line) :
                 /\ ~IsSpace(line[w])
                 /\ \A k \in j..(w - 1) : IsSpace(line[k])
    IN  WordAt(line, w)

\* the line that replaces the flagged one, and the line inserted after it
CommentedOut(line) ==
    Indent(line) \o << "/", "/", " " >> \o Trim(line) \o SecretSuffix

EnvAssignment(line, varName) ==
    Indent(line) \o LitConst \o << " " >> \o varName \o ProcessEnv \o varName \o EnvSuffix

\* fixExposedSecret on the text of finding.file
fixExposedSecret(readable, content, line) ==
    LET lines == SplitLines(content)
        lineIndex == line - 1
    IN  IF ~readable \/ lineIndex < 0 \/ lineIndex >= Len(lines)
        THEN [content |-> content, fixed |-> FALSE]
        ELSE LET problematicLine == lines[lineIndex + 1]
             IN  IF /\ Includes(problematicLine, << "=" >>)
                    /\ \/ Includes(problematicLine, << "\"" >>)
                       \/ Includes(problematicLine, << "'" >>)
                    /\ DeclarationStarts(problematicLine) # {}
                 THEN [content |->
                          JoinLines(Splice(
                              [lines EXCEPT ![lineIndex + 1] = CommentedOut(problematicLine)],
                              lineIndex + 1,
                              << EnvAssignment(problematicLine, VarName(problematicLine)) >>)),
                       fixed |-> TRUE]
                 ELSE [content |-> content, fixed |-> FALSE]

runVars == <<cmd, hasToken, urlValid>>
fixVars == <<fixResults, committed>>
treeVars == <<repoRoot, gitignoreContent, workFiles>>
findingVars == <<secFindings, structFindings, allFindings>>
idleVars == <<parsedFiles, secPc, secIdx, structPc, histVars, concVars>>
loopVars == <<openPRs, prIdx, prFiles, listedReviews, issueCheck>>

\* the clone directory holds the given branch content
Checkout(id) ==
    /\ repoRoot' = Tree(id).root
    /\ gitignoreContent' = Tree(id).gitignore
    /\ workFiles' = Tree(id).files

\* the content of the clone directory
CurrentTree == [root |-> repoRoot, gitignore |-> gitignoreContent, files |-> workFiles]
EmptyTree == [root |-> {}, gitignore |-> << >>, files |-> << >>]

\* console.log("Cleaning existing clone...")
CleaningExistingClone == "Cleaning existing clone..."

\* the existing directory stays as it is
RemoveTargetKeep(tree) == tree

\* cloneRepo: fs.remove(targetDir) of an existing directory
RemoveTarget(tree) == EmptyTree

\* git.clone(repoUrl, targetDir): the files of the branch are written into the
\* target directory, to what is there
CloneInto(target, branch) ==
    [root |-> target.root \cup branch.root,
     gitignore |-> branch.gitignore,
     files |-> SelectSeq(target.files,
                         LAMBDA old : \A k \in 1..Len(branch.files) :
                                         branch.files[k].filePath # old.filePath)
               \o branch.files]

\* fs.remove of the clone directory
Removed ==
    /\ cloneDir' = "absent"
    /\ repoRoot' = {}
    /\ gitignoreContent' = << >>
    /\ workFiles' = << >>

\* an error that reaches the catch block without its message
RaiseNoMessage(msg) == error' = error

\* throw new Error(msg), caught by the catch block of the command
Raise(msg) == error' = IF pc' = "catch" THEN msg ELSE error

RemoteWriteWith(kind, target, detail, comments) ==
    remoteLog' = Append(remoteLog, [kind |-> kind, target |-> target, detail |-> detail,
                                    comments |-> comments])

RemoteWrite(kind, target, detail) == RemoteWriteWith(kind, target, detail, << >>)

\* new GitHubClient(): throws when GITHUB_TOKEN is not set
CliNewClient ==
    /\ pc = "start"
    /\ pc' = IF ~hasToken THEN "catch"
             ELSE IF cmd = "analyze" THEN "parseRepoUrl" ELSE "verifyAuth"
    /\ Raise("GITHUB_TOKEN not found in environment variables")
    /\ UNCHANGED <<runVars, printed, fixVars, sourceFiles, treeVars, findingVars, idleVars, loopVars,
                   origin, cloneDir, remoteLog>>

\* githubClient.verifyAuth()
CliVerifyAuth ==
    /\ pc = "verifyAuth"
    /\ \E ok \in BOOLEAN : pc' = IF ok THEN "parseRepoUrl" ELSE "catch"
    /\ Raise("authentication failed")
    /\ UNCHANGED <<runVars, printed, fixVars, sourceFiles, treeVars, findingVars, idleVars, loopVars,
                   origin, cloneDir, remoteLog>>

\* githubClient.parseRepoUrl(repoUrl): throws "Invalid GitHub URL"
CliParseRepoUrl ==
    /\ pc = "parseRepoUrl"
    /\ pc' = IF ~urlValid THEN "catch"
             ELSE IF cmd = "review" THEN "getOpenPRs" ELSE "cloneRepo"
    /\ Raise("Invalid GitHub URL")
    /\ UNCHANGED <<runVars, printed, fixVars, sourceFiles, treeVars, findingVars, idleVars, loopVars,
                   origin, cloneDir, remoteLog>>

\* reviewManager.getOpenPRs without the filter on the author
getOpenPRsAnyAuthor(prs) ==
    SelectSeq(prs, LAMBDA pr : pr.state = "open")

\* reviewManager.getOpenPRs: the open pull requests not created by the account
getOpenPRs(prs) ==
    SelectSeq(prs, LAMBDA pr : pr.state = "open" /\ pr.user # Bot)

CliGetOpenPRs ==
    /\ pc = "getOpenPRs"
    /\ \E ok \in BOOLEAN :
          IF ok
          THEN /\ openPRs' = getOpenPRs(origin.prs)
               /\ prIdx' = 1
               /\ UNCHANGED <<prFiles, listedReviews, issueCheck>>
               /\ pc' = IF Len(openPRs') = 0 THEN "done" ELSE "nextPR"
          ELSE /\ pc' = "catch"
               /\ UNCHANGED loopVars
    /\ Raise("pulls.list failed")
    /\ UNCHANGED <<runVars, printed, fixVars, sourceFiles, treeVars, findingVars, idleVars,
                   origin, cloneDir, remoteLog>>

\* for (const pr of openPRs)
CliNextPR ==
    /\ pc = "nextPR"
    /\ pc' = IF prIdx <= Len(openPRs) THEN "hasBeenReviewed" ELSE "done"
    /\ error' = error
    /\ UNCHANGED <<runVars, printed, fixVars, sourceFiles, treeVars, findingVars, idleVars, loopVars,
                   origin, cloneDir, remoteLog>>

\* reviewManager.hasBeenReviewed: false when the reviews cannot be listed
\* console.warn("Could not check existing reviews:", error.message)
CouldNotCheckReviews == "Could not check existing reviews"

hasBeenReviewed(listed, number) ==
    listed /\ \E i \in 1..Len(origin.prs[number].reviews) :
                 origin.prs[number].reviews[i] = Bot

CliHasBeenReviewed ==
    /\ pc = "hasBeenReviewed"
    /\ \E listed \in BOOLEAN :
          /\ listedReviews' = IF listed THEN listedReviews \cup {openPRs[prIdx].number}
                              ELSE listedReviews
          /\ printed' = IF listed THEN printed ELSE printed \cup {CouldNotCheckReviews}
          /\ IF hasBeenReviewed(listed, openPRs[prIdx].number)
             THEN /\ prIdx' = prIdx + 1
                  /\ pc' = "nextPR"
             ELSE /\ prIdx' = prIdx
                  /\ pc' = "getPRFiles"
    /\ error' = error
    /\ UNCHANGED <<runVars, fixVars, sourceFiles, treeVars, findingVars, idleVars, openPRs,
                   prFiles, issueCheck, origin, cloneDir, remoteLog>>

\* reviewManager.getPRFiles
CliGetPRFiles ==
    /\ pc = "getPRFiles"
    /\ \E ok \in BOOLEAN :
          IF ok
          THEN /\ prFiles' = origin.prs[openPRs[prIdx].number].files
               /\ pc' = "cloneRepo"
          ELSE /\ prFiles' = prFiles
               /\ pc' = "catch"
    /\ Raise("pulls.listFiles failed")
    /\ UNCHANGED <<runVars, printed, fixVars, sourceFiles, treeVars, findingVars, idleVars, openPRs,
                   prIdx, listedReviews, issueCheck, origin, cloneDir, remoteLog>>

\* gitManager.cloneRepo: an existing directory is removed, then the default
\* branch is cloned; a failed clone throws
CliCloneRepo ==
    /\ pc = "cloneRepo"
    /\ printed' = IF cloneDir # "absent" THEN printed \cup {CleaningExistingClone}
                  ELSE printed
    /\ \E ok \in BOOLEAN :
          IF ok
          THEN /\ cloneDir' = "fresh"
               /\ LET target == IF cloneDir # "absent" THEN RemoveTarget(CurrentTree)
                                ELSE CurrentTree
                      cloned == CloneInto(target, Tree(origin.main))
                  IN  /\ repoRoot' = cloned.root
                      /\ gitignoreContent' = cloned.gitignore
                      /\ workFiles' = cloned.files
               /\ pc' = IF cmd = "review" THEN "checkout" ELSE "getSourceFiles"
          ELSE /\ Removed
               /\ pc' = "catch"
    /\ Raise("Failed to clone repository")
    /\ UNCHANGED <<runVars, fixVars, sourceFiles, findingVars, idleVars, loopVars,
                   origin, remoteLog>>

\* git.checkout(pr.head.ref)
CliCheckout ==
    /\ pc = "checkout"
    /\ \E ok \in BOOLEAN :
          IF ok
          THEN /\ Checkout(openPRs[prIdx].head)
               /\ pc' = "getSourceFiles"
          ELSE /\ pc' = "catch"
               /\ UNCHANGED treeVars
    /\ Raise("git.checkout failed")
    /\ UNCHANGED <<runVars, printed, fixVars, sourceFiles, findingVars, idleVars, loopVars,
                   origin, cloneDir, remoteLog>>

\* gitManager.getSourceFiles(repoPath)
CliGetSourceFiles ==
    /\ pc = "getSourceFiles"
    /\ \E ok \in BOOLEAN :
          IF ok
          THEN /\ sourceFiles' = workFiles
               /\ pc' = "security"
          ELSE /\ pc' = "catch"
               /\ UNCHANGED sourceFiles
    /\ Raise("fs.readdir failed")
    /\ UNCHANGED <<runVars, printed, fixVars, treeVars, findingVars, idleVars, loopVars,
                   origin, cloneDir, remoteLog>>

\* new SecurityAnalyzer().analyze(sourceFiles)
CliSecurityAnalysis ==
    /\ pc = "security"
    /\ secFindings' = SecurityAnalyze(sourceFiles)
    /\ pc' = IF cmd = "fix" THEN "filterCritical" ELSE "structure"
    /\ error' = error
    /\ UNCHANGED <<runVars, printed, fixVars, sourceFiles, treeVars, structFindings, allFindings,
                   idleVars, loopVars, origin, cloneDir, remoteLog>>

\* new StructureAnalyzer().analyze(repoPath, sourceFiles): reading a file may throw
CliStructureAnalysis ==
    /\ pc = "structure"
    /\ IF ~ReadFails(sourceFiles)
       THEN /\ structFindings' =
                   StructureAnalyze(repoRoot, gitignoreContent, repoPath, sourceFiles)
            /\ pc' = "combine"
       ELSE /\ pc' = "catch"
            /\ UNCHANGED structFindings
    /\ Raise("fs.readFile failed")
    /\ UNCHANGED <<runVars, printed, fixVars, sourceFiles, treeVars, secFindings, allFindings,
                   idleVars, loopVars, origin, cloneDir, remoteLog>>

\* const allFindings = [...securityFindings, ...structureFindings]
CliCombine ==
    /\ pc = "combine"
    /\ allFindings' = CombineFindings(secFindings, structFindings)
    /\ pc' = "summary"
    /\ error' = error
    /\ UNCHANGED <<runVars, printed, fixVars, sourceFiles, treeVars, secFindings, structFindings,
                   idleVars, loopVars, origin, cloneDir, remoteLog>>

\* the step after the summary if analyze reported to the remote as issue does
AfterSummaryReporting(command, findings) ==
    IF Len(findings) = 0 THEN "cleanup"
    ELSE IF command = "review" THEN "createReview" ELSE "issueExists"

\* the step after the summary: analyze displays the findings and cleans up,
\* issue and review report a non-empty finding list to the remote
AfterSummary(command, findings) ==
    IF command = "analyze" \/ Len(findings) = 0 THEN "cleanup"
    ELSE IF command = "issue" THEN "issueExists" ELSE "createReview"

\* the summary is shown; findings are reported by issue and review only
CliSummary ==
    /\ pc = "summary"
    /\ pc' = AfterSummary(cmd, allFindings)
    /\ error' = error
    /\ UNCHANGED <<runVars, printed, fixVars, sourceFiles, treeVars, findingVars, idleVars, loopVars,
                   origin, cloneDir, remoteLog>>

\* issueManager.issueExists, true when the issues cannot be listed
issueExistsOrUnknown(listed, title) ==
    listed => \E i \in 1..Len(origin.issues) : origin.issues[i] = title

\* issueManager.issueExists: false when the issues cannot be listed
issueExists(listed, title) ==
    listed /\ \E i \in 1..Len(origin.issues) : origin.issues[i] = title

CliIssueExists ==
    /\ pc = "issueExists"
    /\ \E listed \in BOOLEAN :
          LET exists == issueExists(listed, SeverityCounts(allFindings)) IN
          /\ issueCheck' = IF ~listed THEN "failed"
                           ELSE IF exists THEN "exists" ELSE "absent"
          /\ pc' = IF exists THEN "cleanup" ELSE "createIssue"
    /\ error' = error
    /\ UNCHANGED <<runVars, printed, fixVars, sourceFiles, treeVars, findingVars, idleVars, openPRs,
                   prIdx, prFiles, listedReviews, origin, cloneDir, remoteLog>>

\* issueManager.createReviewIssue: with labels, else without, else it throws
CliCreateIssue ==
    /\ pc = "createIssue"
    /\ \E outcome \in {"labelled", "unlabelled", "fail"} :
          IF outcome = "fail"
          THEN /\ pc' = "catch"
               /\ UNCHANGED <<origin, remoteLog>>
          ELSE /\ origin' = [origin EXCEPT
                                !.issues = Append(@, SeverityCounts(allFindings))]
               /\ RemoteWrite("issue", 0, outcome)
               /\ pc' = "cleanup"
    /\ Raise("issues.create failed")
    /\ UNCHANGED <<runVars, printed, fixVars, sourceFiles, treeVars, findingVars, idleVars, loopVars,
                   cloneDir>>

\* createReview: const event, requesting changes for warnings as well
ReviewEventStrict(findings) ==
    IF Len(getBySeverity(findings, "critical")) + Len(getBySeverity(findings, "warning")) > 0
    THEN "REQUEST_CHANGES" ELSE "COMMENT"

\* createReview: const event
ReviewEvent(findings) ==
    IF Len(getBySeverity(findings, "critical")) > 0 THEN "REQUEST_CHANGES" ELSE "COMMENT"

\* reviewManager.createReview: when the review cannot be created a plain comment
\* is tried and the error is thrown again
CliCreateReview ==
    /\ pc = "createReview"
    /\ LET number == openPRs[prIdx].number IN
       \E outcome \in {"review", "comment", "nothing"} :
          CASE outcome = "review" ->
                  /\ origin' = [origin EXCEPT !.prs[number].reviews = Append(@, Bot)]
                  /\ RemoteWriteWith("review", number, ReviewEvent(allFindings),
                                     mapFindingsToPRComments(allFindings, prFiles))
                  /\ pc' = "cleanup"
            [] outcome = "comment" ->
                  /\ RemoteWrite("comment", number, "body")
                  /\ pc' = "catch"
                  /\ UNCHANGED origin
            [] outcome = "nothing" ->
                  /\ pc' = "catch"
                  /\ UNCHANGED <<origin, remoteLog>>
    /\ Raise("pulls.createReview failed")
    /\ UNCHANGED <<runVars, printed, fixVars, sourceFiles, treeVars, findingVars, idleVars, loopVars,
                   cloneDir>>

\* runFixCommand: const criticalFindings; nothing to fix ends the run
CliFilterCritical ==
    /\ pc = "filterCritical"
    /\ pc' = IF Len(getBySeverity(secFindings, "critical")) = 0
             THEN "cleanup" ELSE "fixBranch"
    /\ error' = error
    /\ UNCHANGED <<runVars, printed, fixVars, sourceFiles, treeVars, findingVars, idleVars, loopVars,
                   origin, cloneDir, remoteLog>>

\* createFixPR: const criticalFindings
criticalFindings == getBySeverity(secFindings, "critical")

\* createFixPR: filesFixed
filesFixed == Cardinality({k \in 1..Len(fixResults) : fixResults[k]})

\* the body of for (const finding of criticalFindings): the files of the clone
\* directory after the fix of one finding, and what the fix returned
FixFinding(files, finding) ==
    LET at == {k \in 1..Len(files) : files[k].filePath = finding.file}
    IN  IF at = {} \/ finding.type \notin {"sql-injection", "exposed-secret"}
        THEN [files |-> files, fixed |-> FALSE]
        ELSE LET k == CHOOSE k \in at : TRUE
                 result == IF finding.type = "sql-injection"
                           THEN fixSQLInjection(files[k].readable, files[k].code,
                                                finding.line)
                           ELSE fixExposedSecret(files[k].readable, files[k].code,
                                                 finding.line)
             IN  [files |-> [files EXCEPT ![k].code = result.content],
                  fixed |-> result.fixed]

\* the step after the loop if the commit were made whatever was fixed
AfterFixesAlways(fixed) == "fixCommit"

\* if (filesFixed === 0) return null, and the command cleans up
AfterFixes(fixed) == IF fixed = 0 THEN "cleanup" ELSE "fixCommit"

\* createFixPR step 1: let filesFixed = 0; git.checkoutLocalBranch(branchName)
CliFixBranch ==
    /\ pc = "fixBranch"
    /\ \E ok \in BOOLEAN : pc' = IF ok THEN "applyFixes" ELSE "catch"
    /\ fixResults' = << >>
    /\ committed' = committed
    /\ Raise("git.checkoutLocalBranch failed")
    /\ UNCHANGED <<runVars, printed, sourceFiles, treeVars, findingVars, idleVars, loopVars,
                   origin, cloneDir, remoteLog>>

\* createFixPR step 2: one finding is fixed per step; after the last one, no
\* file fixed returns null and the command cleans up
CliFixApply ==
    /\ pc = "applyFixes"
    /\ IF Len(fixResults) < Len(criticalFindings)
       THEN LET result == FixFinding(workFiles, criticalFindings[Len(fixResults) + 1])
            IN  /\ workFiles' = result.files
                /\ fixResults' = Append(fixResults, result.fixed)
                /\ pc' = pc
       ELSE /\ pc' = AfterFixes(filesFixed)
            /\ UNCHANGED <<workFiles, fixResults>>
    /\ committed' = committed
    /\ error' = error
    /\ UNCHANGED <<runVars, printed, sourceFiles, repoRoot, gitignoreContent, findingVars,
                   idleVars, loopVars, origin, cloneDir, remoteLog>>

\* createFixPR step 3: git.add, git.commit
CliFixCommit ==
    /\ pc = "fixCommit"
    /\ \E ok \in BOOLEAN :
          /\ pc' = IF ok THEN "fixCreateRef" ELSE "catch"
          /\ committed' = ok
    /\ fixResults' = fixResults
    /\ Raise("git.commit failed")
    /\ UNCHANGED <<runVars, printed, sourceFiles, treeVars, findingVars, idleVars, loopVars,
                   origin, cloneDir, remoteLog>>

\* createFixPR step 4: repos.get, git.getRef, git.createRef
CliFixCreateRef ==
    /\ pc = "fixCreateRef"
    /\ \E ok \in BOOLEAN :
          IF ok
          THEN /\ RemoteWrite("branch", 0, "created")
               /\ pc' = "fixPush"
          ELSE /\ pc' = "catch"
               /\ UNCHANGED remoteLog
    /\ Raise("git.createRef failed")
    /\ UNCHANGED <<runVars, printed, fixVars, sourceFiles, treeVars, findingVars, idleVars, loopVars,
                   origin, cloneDir>>

\* createFixPR step 4: git.push("origin", branchName, ["--force"])
CliFixPush ==
    /\ pc = "fixPush"
    /\ \E ok \in BOOLEAN :
          IF ok
          THEN /\ RemoteWrite("branch", 0, "pushed")
               /\ pc' = "fixCreatePR"
          ELSE /\ pc' = "catch"
               /\ UNCHANGED remoteLog
    /\ Raise("git.push failed")
    /\ UNCHANGED <<runVars, printed, fixVars, sourceFiles, treeVars, findingVars, idleVars, loopVars,
                   origin, cloneDir>>

\* createFixPR step 5: pulls.create
CliFixCreatePR ==
    /\ pc = "fixCreatePR"
    /\ \E ok \in BOOLEAN :
          IF ok
          THEN /\ origin' = [origin EXCEPT !.prs =
                     Append(@, [number |-> Len(@) + 1, state |-> "open", user |-> Bot,
                                reviews |-> << >>, head |-> "fixed",
                                files |-> << >>])]
               /\ RemoteWrite("pr", Len(origin.prs) + 1, "opened")
               /\ pc' = "cleanup"
          ELSE /\ pc' = "catch"
               /\ UNCHANGED <<origin, remoteLog>>
    /\ Raise("pulls.create failed")
    /\ UNCHANGED <<runVars, printed, fixVars, sourceFiles, treeVars, findingVars, idleVars, loopVars,
                   cloneDir>>

\* gitManager.cleanup(repoPath); the review loop goes on with the next pull request
CliCleanup ==
    /\ pc = "cleanup"
    /\ \E ok \in BOOLEAN :
          IF ok
          THEN /\ Removed
               /\ prIdx' = IF cmd = "review" THEN prIdx + 1 ELSE prIdx
               /\ pc' = IF cmd = "review" THEN "nextPR" ELSE "done"
          ELSE /\ pc' = "catch"
               /\ UNCHANGED <<treeVars, cloneDir, prIdx>>
    /\ UNCHANGED <<prFiles, listedReviews, issueCheck>>
    /\ Raise("fs.remove failed")
    /\ UNCHANGED <<runVars, printed, fixVars, sourceFiles, findingVars, idleVars, openPRs,
                   origin, remoteLog>>

\* catch (error): spinner.fail, console.error, process.exit(1)
CliCatch ==
    /\ pc = "catch"
    /\ pc' = "exited"
    /\ error' = error
    /\ UNCHANGED <<runVars, printed, fixVars, sourceFiles, treeVars, findingVars, idleVars, loopVars,
                   origin, cloneDir, remoteLog>>

\* the process has ended: "done" with status 0, "exited" with status 1
Terminal == pc \in {"done", "exited"}
ExitStatus == IF pc = "exited" THEN 1 ELSE 0

\* what an earlier run that failed left in the clone directory
StaleTree == "stale"

CliInit ==
    /\ cmd \in Commands
    /\ pc = "start"
    /\ hasToken \in BOOLEAN
    /\ urlValid \in BOOLEAN
    /\ \E main \in TreeIds \cup (IF cmd = "fix" THEN FixTreeIds ELSE {}) :
          origin \in [main : {main},
                      prs : IF cmd = "review" THEN PRLists ELSE { << >> },
                      issues : IF cmd = "issue" THEN IssueLists(main) ELSE { << >> }]
    /\ cloneDir \in {"absent", "stale"}
    /\ repoRoot = IF cloneDir = "stale" THEN Tree(StaleTree).root ELSE {}
    /\ gitignoreContent = IF cloneDir = "stale" THEN Tree(StaleTree).gitignore ELSE << >>
    /\ workFiles = IF cloneDir = "stale" THEN Tree(StaleTree).files ELSE << >>
    /\ sourceFiles = << >>
    /\ secFindings = << >>
    /\ structFindings = << >>
    /\ allFindings = << >>
    /\ parsedFiles = << >>
    /\ secPc = "idle"
    /\ secIdx = 1
    /\ structPc = "idle"
    /\ NoHistory
    /\ openPRs = << >>
    /\ listedReviews = {}
    /\ issueCheck = "none"
    /\ prIdx = 1
    /\ prFiles = << >>
    /\ fixResults = << >>
    /\ committed = FALSE
    /\ printed = {}
    /\ remoteLog = << >>
    /\ error = "none"
    /\ NoConcurrentRuns

CliNext ==
    \/ CliNewClient
    \/ CliVerifyAuth
    \/ CliParseRepoUrl
    \/ CliGetOpenPRs
    \/ CliNextPR
    \/ CliHasBeenReviewed
    \/ CliGetPRFiles
    \/ CliCloneRepo
    \/ CliCheckout
    \/ CliGetSourceFiles
    \/ CliSecurityAnalysis
    \/ CliStructureAnalysis
    \/ CliCombine
    \/ CliSummary
    \/ CliIssueExists
    \/ CliCreateIssue
    \/ CliCreateReview
    \/ CliFilterCritical
    \/ CliFixBranch
    \/ CliFixApply
    \/ CliFixCommit
    \/ CliFixCreateRef
    \/ CliFixPush
    \/ CliFixCreatePR
    \/ CliCleanup
    \/ CliCatch

CliSpec == CliInit /\ [][CliNext]_vars

(***************************************************************************)
(* Properties of repeated analyzer calls.                                  *)
(***************************************************************************)

\* C11: every call of SecurityAnalyzer.analyze on the unchanged file set
\* returns the same finding sequence, nothing of an earlier call is carried
\* over, and no step changes the content of an array returned earlier.
C11_RerunIdentical ==
    /\ [](\A i, j \in 1..Len(secReturned) : Returned(i) = Returned(j))
    /\ [][\A i \in 1..Len(secReturned) : Returned(i)' = Returned(i)]_vars

C11_Witness ==
    /\ Len(secReturned) = 2
    /\ secPc = "done"
    /\ Len(Returned(1)) >= 2

\* Both analyzers driven by one caller, on the same repository.
AnalyzerFileLists ==
    { CleanFiles,
      << SmallFile >>,
      OneFile(SampleCode, << UnsafeRunNode, UnsafeRunNode >>),
      OneFile(Text3(LineApiKeyLiteral, LineFiller, LineFiller), << >>),
      TwoFiles(LineApiKeyLiteral, LineFiller, TRUE, FALSE, UnsafeRunNode),
      << File(PathApp, Text3(LineApiKeyLiteral, LineFiller, LineFiller), TRUE, << >>),
         UnreadableFile(PathDb) >> }

AnalyzerRoots ==
    { {}, RootNames, RootNames \ {".env"}, RootNames \ {".env", "README.md"},
      {"README.md", ".env"} }

AnalyzerInit ==
    /\ sourceFiles \in AnalyzerFileLists
    /\ repoRoot \in AnalyzerRoots
    /\ gitignoreContent \in {GitignoreWithEnv, GitignoreWithoutEnv}
    /\ secFindings = << >>
    /\ parsedFiles = << >>
    /\ secIdx = 1
    /\ secPc = "idle"
    /\ structFindings = << >>
    /\ structPc = "idle"
    /\ NoHistory
    /\ CliIdle
    /\ NoConcurrentRuns

AnalyzerNext == SecNext \/ StructNext

AnalyzerSpec == AnalyzerInit /\ [][AnalyzerNext]_vars

CountOf(findings, severity) ==
    Cardinality({i \in 1..Len(findings) : findings[i].severity = severity})

SummaryMatches(result, findings) ==
    /\ result.total = Len(findings)
    /\ result.critical = CountOf(findings, "critical")
    /\ result.warning = CountOf(findings, "warning")
    /\ result.info = CountOf(findings, "info")
    /\ result.total = result.critical + result.warning + result.info

\* the summary was taken after the last call of analyze so far
SummaryCurrent ==
    \/ summary.of = "security" /\ secPc \in {"idle", "done"}
          /\ summary.run = Len(secReturned)
    \/ summary.of = "structure" /\ structPc \in {"idle", "done"}
          /\ summary.run = structRuns

\* C12: after any number of analyze calls, getSummary() of either analyzer
\* gives the number of findings of the last run as total and their numbers per
\* severity, with total = critical + warning + info; a getSummary() call leaves
\* the findings of both analyzers as they were.
C12_SummaryOfLastRun ==
    /\ [](SummaryCurrent =>
             SummaryMatches(summary.result,
                            IF summary.of = "security" THEN secFindings
                            ELSE structFindings))
    /\ [][summary' # summary =>
             secFindings' = secFindings /\ structFindings' = structFindings]_vars

C12_Witness ==
    /\ SummaryCurrent
    /\ summary.of = "structure"
    /\ summary.run = MaxRuns
    /\ Len(secReturned) = MaxRuns
    /\ summary.result.critical > 0
    /\ summary.result.warning > 0
    /\ summary.result.info > 0

SecurityTypes == {"sql-injection", "exposed-secret"}
Severities == {"critical", "warning", "info"}

\* a finding of the Security Analyzer carries a line of its file and is critical;
\* a finding of the Structure Analyzer is about the repository: line "N/A"
WellFormedFinding(f) ==
    /\ f.severity \in Severities
    /\ IF f.type \in SecurityTypes
       THEN f.line \in Nat /\ f.line >= 1 /\ f.severity = "critical"
       ELSE f.line = "N/A"

\* C14: in every reachable state every finding of either analyzer has a
\* severity among critical, warning, info and a line that is a positive integer
\* or the sentinel "N/A"; every finding of the Security Analyzer is critical.
C14_WellFormedFindings ==
    /\ \A i \in 1..Len(secFindings) :
          WellFormedFinding(secFindings[i]) /\ secFindings[i].type \in SecurityTypes
    /\ \A i \in 1..Len(structFindings) :
          WellFormedFinding(structFindings[i]) /\ structFindings[i].type \notin SecurityTypes

C14_Witness ==
    /\ secPc = "done"
    /\ structPc = "done"
    /\ \E i \in 1..Len(secFindings) : secFindings[i].type = "sql-injection"
    /\ \E i \in 1..Len(secFindings) : secFindings[i].type = "exposed-secret"
    /\ \A sev \in Severities : \E i \in 1..Len(structFindings) : structFindings[i].severity = sev

\* the files of the input that can be read and parsed, in input order
GoodFiles == SelectSeq(sourceFiles, LAMBDA f : f.readable /\ f.parses)

\* parseFiles returns the parsed good files in input order, and analyze emits
\* the findings of the good files and none for a file that failed
ParserSkipsFailedFiles ==
    secPc = "done" =>
        /\ Len(parsedFiles) = Len(GoodFiles)
        /\ \A k \in 1..Len(GoodFiles) :
              /\ parsedFiles[k].filePath = GoodFiles[k].filePath
              /\ parsedFiles[k].code = GoodFiles[k].code
              /\ parsedFiles[k].ast = GoodFiles[k].ast
        /\ secFindings = SecurityAnalyze(GoodFiles)
        /\ \A k \in 1..Len(sourceFiles) :
              ~(sourceFiles[k].readable /\ sourceFiles[k].parses) =>
                  \A i \in 1..Len(secFindings) :
                      secFindings[i].file # sourceFiles[k].filePath

(***************************************************************************)
(* Properties of the command-line tool.                                    *)
(***************************************************************************)

\* C1: no run that has cloned the repository ends, with or without an error,
\* while the directory it cloned is still on disk.
C1_CloneRemovedAtExit == Terminal => cloneDir # "fresh"

\* a run that ended without an error has removed its clone (what the code ensures)
CloneRemovedOnSuccess == pc = "done" => cloneDir # "fresh"

ReportStates == {"summary", "issueExists", "createIssue", "createReview"}

\* C10: the combined findings are the security findings followed by the
\* structure findings, each in its own order; the length is the sum of the two
\* lengths and nothing is dropped, merged or reordered.
C10_CombinedFindings ==
    pc \in ReportStates =>
        /\ Len(allFindings) = Len(secFindings) + Len(structFindings)
        /\ \A i \in 1..Len(secFindings) : allFindings[i] = secFindings[i]
        /\ \A j \in 1..Len(structFindings) :
              allFindings[Len(secFindings) + j] = structFindings[j]

C10_Witness ==
    /\ pc \in ReportStates
    /\ Len(secFindings) >= 2
    /\ secFindings[1] = secFindings[2]
    /\ Len(structFindings) > 0


\* C13: a source file that cannot be read or parsed never aborts the run.
C13_FailedFileNeverAborts ==
    (\E k \in 1..Len(sourceFiles) :
        ~(sourceFiles[k].readable /\ sourceFiles[k].parses))
    => error # "fs.readFile failed"


\* the reviews posted in the run
PostedReviews == {i \in 1..Len(remoteLog) : remoteLog[i].kind = "review"}

\* the findings of the branch of a pull request
PRFindings(number) == TreeFindings(origin.prs[number].head)

\* C15: a review posted by the review command requests changes exactly when
\* the findings of that pull request include a critical one, is a plain comment
\* otherwise, and is never an approval.
C15_ReviewEvent ==
    \A i \in PostedReviews :
        /\ remoteLog[i].detail =
              IF CountOf(PRFindings(remoteLog[i].target), "critical") > 0
              THEN "REQUEST_CHANGES" ELSE "COMMENT"
        /\ remoteLog[i].detail # "APPROVE"

C15_Witness ==
    /\ pc = "done"
    /\ \E i, j \in PostedReviews :
          /\ remoteLog[i].detail = "REQUEST_CHANGES"
          /\ remoteLog[j].detail = "COMMENT"
          /\ CountOf(PRFindings(remoteLog[j].target), "warning") > 0


\* the run is cloning, analysing or reporting for the pull request openPRs[prIdx]
HandlingStates ==
    {"cloneRepo", "checkout", "getSourceFiles", "security", "structure", "combine",
     "summary", "createReview", "cleanup"}

\* the pull requests the run has posted a review or a comment on
PostedOn ==
    {remoteLog[i].target : i \in {j \in 1..Len(remoteLog) :
                                    remoteLog[j].kind \in {"review", "comment"}}}

\* the pull requests the run clones, analyses or has posted on
Touched ==
    PostedOn \cup (IF cmd = "review" /\ pc \in HandlingStates
                   THEN {openPRs[prIdx].number} ELSE {})

\* reviews by the account on a pull request that the run did not post itself
EarlierBotReviews(number) ==
    Cardinality({i \in 1..Len(origin.prs[number].reviews) :
                    origin.prs[number].reviews[i] = Bot})
    - Cardinality({i \in PostedReviews : remoteLog[i].target = number})

\* C16 as stated: the run never clones, analyses or posts on a pull request
\* that is closed, authored by the account, or already reviewed by the account.
C16_NeverTouchesIneligible ==
    \A n \in Touched :
        /\ origin.prs[n].state = "open"
        /\ origin.prs[n].user # Bot
        /\ EarlierBotReviews(n) = 0

\* C16, amended: the run never clones, analyses or posts on a pull request
\* that is closed or authored by the account, nor on one already reviewed by
\* the account when the list of its reviews could be fetched; when listing the
\* reviews fails the pull request is handled as not reviewed.
C16_NeverTouchesIneligibleWhenListed ==
    \A n \in Touched :
        /\ origin.prs[n].state = "open"
        /\ origin.prs[n].user # Bot
        /\ n \in listedReviews => EarlierBotReviews(n) = 0

C16_Witness ==
    /\ pc = "done"
    /\ Len(origin.prs) = 2
    /\ origin.prs[1].user = Contributor /\ origin.prs[1].state = "open"
    /\ EarlierBotReviews(1) > 0
    /\ 1 \in listedReviews
    /\ PostedOn = {2}


\* the pull requests the review command is to review
EligiblePRs ==
    {n \in 1..Len(origin.prs) :
        /\ origin.prs[n].state = "open"
        /\ origin.prs[n].user # Bot
        /\ EarlierBotReviews(n) = 0}

ReviewedPRs == {remoteLog[i].target : i \in PostedReviews}

\* C17: a review run in which no call fails ends with a review on every open
\* pull request not authored and not yet reviewed by the account, whatever
\* findings its branch has, none included.
C17_EveryEligiblePRReviewed ==
    cmd = "review" /\ pc = "done" => EligiblePRs \subseteq ReviewedPRs

\* what the code ensures: the pull requests whose branch has findings get a review
ReviewedWhenFindings ==
    cmd = "review" /\ pc = "done" =>
        \A n \in EligiblePRs : Len(PRFindings(n)) > 0 => n \in ReviewedPRs


\* the fallback comments posted in the run
PostedComments == {i \in 1..Len(remoteLog) : remoteLog[i].kind = "comment"}

\* C18: when the review of a pull request cannot be posted and the plain
\* comment is posted in its place, the run goes on: it is not aborted and does
\* not exit with a non-zero status because of the failed review.
C18_FallbackCommentRecovers ==
    PostedComments # {} =>
        ~(pc \in {"catch", "exited"} /\ error = "pulls.createReview failed")

\* what the code does: a failed review ends the run, with or without the comment
FailedReviewEndsRun ==
    /\ PostedComments # {} => pc \in {"catch", "exited"}
    /\ pc = "exited" /\ error = "pulls.createReview failed" =>
          /\ ExitStatus = 1
          /\ Cardinality(PostedComments) <= 1
          /\ \A i \in PostedComments : remoteLog[i].target = openPRs[prIdx].number


\* the issues created in the run
CreatedIssues == {i \in 1..Len(remoteLog) : remoteLog[i].kind = "issue"}

\* open issues by the account with the generated title that the run did not create
EarlierIssues ==
    Cardinality({i \in 1..Len(origin.issues) :
                    origin.issues[i] = SeverityCounts(allFindings)})
    - Cardinality(CreatedIssues)

\* C19: an issue run that ends without an error has created an issue exactly
\* when there are findings and the existence check did not report an open issue
\* by the account with the generated title; a check that fails counts as "no
\* such issue" and the issue is created; without findings none is created.
C19_IssueCreatedUnlessExists ==
    cmd = "issue" /\ pc = "done" =>
        /\ CreatedIssues # {} <=> (Len(allFindings) > 0 /\ issueCheck # "exists")
        /\ Cardinality(CreatedIssues) <= 1
        /\ Len(allFindings) = 0 => issueCheck = "none"
        /\ issueCheck = "exists" => EarlierIssues > 0
        /\ issueCheck = "absent" => EarlierIssues = 0
        /\ issueCheck = "failed" => CreatedIssues # {}

C19_Witness ==
    /\ cmd = "issue"
    /\ pc = "done"
    /\ issueCheck = "failed"
    /\ EarlierIssues > 0
    /\ CreatedIssues # {}


(***************************************************************************)
(* ReviewManager.createReview as a function of its arguments: the run is   *)
(* at the call, with any findings list the analyzers' finding shapes allow *)
(* (getLineNumber yields a number or "unknown", the structure checks       *)
(* "N/A") and any list of changed files.                                   *)
(***************************************************************************)
MaxReviewFindings == 2

ReviewFinding(type, severity, file, line) ==
    [type |-> type, severity |-> severity, file |-> file, line |-> line,
     message |-> type]

ReviewFindingSamples ==
    << ReviewFinding("sql-injection", "critical", PathApp, 2),
       ReviewFinding("sql-injection", "critical", PathApp, "unknown"),
       ReviewFinding("exposed-secret", "critical", PathDb, 1),
       ReviewFinding("large-file", "warning", PathApp, "N/A"),
       ReviewFinding("missing-folder-structure", "warning", repoPath, "N/A") >>

ChangedFileLists == { << >>, ChangedApp, ChangedSrc, ChangedOther }

ReviewInit ==
    /\ cmd = "review"
    /\ pc = "createReview"
    /\ hasToken = TRUE
    /\ urlValid = TRUE
    /\ \E picks \in SeqsUpTo(1..Len(ReviewFindingSamples), MaxReviewFindings) \ { << >> } :
          allFindings = [k \in 1..Len(picks) |-> ReviewFindingSamples[picks[k]]]
    /\ prFiles \in ChangedFileLists
    /\ origin = [main |-> "clean",
                 prs |-> Numbered(<< PR("open", Contributor, << >>, "secrets", prFiles) >>),
                 issues |-> << >>]
    /\ openPRs = getOpenPRs(origin.prs)
    /\ prIdx = 1
    /\ listedReviews = {1}
    /\ issueCheck = "none"
    /\ cloneDir = "fresh"
    /\ repoRoot = Tree("secrets").root
    /\ gitignoreContent = Tree("secrets").gitignore
    /\ workFiles = Tree("secrets").files
    /\ sourceFiles = workFiles
    /\ secFindings = << >>
    /\ structFindings = << >>
    /\ parsedFiles = << >>
    /\ secPc = "idle"
    /\ secIdx = 1
    /\ structPc = "idle"
    /\ NoHistory
    /\ fixResults = << >>
    /\ committed = FALSE
    /\ printed = {}
    /\ remoteLog = << >>
    /\ error = "none"
    /\ NoConcurrentRuns

ReviewNext == CliCreateReview

ReviewSpec == ReviewInit /\ [][ReviewNext]_vars

\* a line that is a number
IsNumber(line) == ~IsText(line) /\ ToString(line) # ToString(NaN)

\* the review of the pull request in hand has just been posted
JustPosted ==
    /\ cmd = "review"
    /\ pc = "cleanup"
    /\ Len(remoteLog) > 0
    /\ remoteLog[Len(remoteLog)].kind = "review"
    /\ remoteLog[Len(remoteLog)].target = openPRs[prIdx].number

\* the findings that carry a concrete line and whose file is among the changed ones
Commentable(findings, changed) ==
    SelectSeq(findings,
              LAMBDA f : /\ IsNumber(f.line)
                         /\ FindPRFile(changed, extractFileName(f.file)) # Null)

\* C20: every inline comment of a posted review has a positive integer line,
\* the line of the finding it was built from, and there is one comment per
\* finding with a concrete line and a matching changed file, in order: a finding
\* whose line is "N/A" or "unknown" or whose file matches no changed file yields
\* no comment.
C20_InlineComments ==
    JustPosted =>
        LET comments == remoteLog[Len(remoteLog)].comments
            sources == Commentable(allFindings, prFiles)
        IN  /\ Len(comments) = Len(sources)
            /\ \A k \in 1..Len(comments) :
                  /\ IsNumber(comments[k].line)
                  /\ comments[k].line > 0
                  /\ k <= Len(sources) => comments[k].line = sources[k].line

\* the comments of a posted review are those of mapFindingsToPRComments with
\* "unknown" lines skipped as well
CommentsButForUnknown ==
    JustPosted =>
        remoteLog[Len(remoteLog)].comments =
            Flatten([k \in 1..Len(allFindings) |->
                        CommentsOfFindingSkipUnknown(allFindings[k], prFiles)])
        \/ \E k \in 1..Len(allFindings) :
              ToString(allFindings[k].line) = ToString("unknown")

\* apart from lists with an "unknown" line, the comments are as C20 says
InlineCommentsWithoutUnknown ==
    (\A k \in 1..Len(allFindings) :
        ToString(allFindings[k].line) # ToString("unknown"))
    => C20_InlineComments

\* a review of the review command carries only comments with a positive line:
\* the analyzers of this build never yield "unknown"
C20_HoldsForAnalyzedFindings ==
    JustPosted =>
        /\ \A k \in 1..Len(allFindings) :
              ToString(allFindings[k].line) # ToString("unknown")
        /\ \A k \in 1..Len(remoteLog[Len(remoteLog)].comments) :
              IsNumber(remoteLog[Len(remoteLog)].comments[k].line)


(***************************************************************************)
(* The analyze command.                                                    *)
(***************************************************************************)
\* the positions at which a run calls the GitHub API (octokit.rest)
ApiStates ==
    {"verifyAuth", "getOpenPRs", "hasBeenReviewed", "getPRFiles", "issueExists",
     "createIssue", "createReview", "fixCreateRef", "fixCreatePR"}

\* C21: an analyze run never reaches a GitHub API call and writes nothing to
\* the remote: its log of remote writes stays empty and no step of it changes
\* the issues, pull requests or reviews of the remote repository, whether the
\* run ends normally or with an error.
C21_AnalyzeNoRemote ==
    /\ [](cmd = "analyze" => pc \notin ApiStates /\ remoteLog = << >>)
    /\ [][cmd = "analyze" => origin' = origin /\ remoteLog' = remoteLog]_vars

C21_Witness ==
    /\ cmd = "analyze"
    /\ pc = "done"
    /\ CountOf(allFindings, "critical") > 0
    /\ remoteLog = << >>


(***************************************************************************)
(* The fix command.                                                        *)
(***************************************************************************)
\* the remote writes of createFixPR, in the order of the code
FixWrites ==
    << [kind |-> "branch", target |-> 0, detail |-> "created", comments |-> << >>],
       [kind |-> "branch", target |-> 0, detail |-> "pushed", comments |-> << >>],
       [kind |-> "pr", target |-> 1, detail |-> "opened", comments |-> << >>] >>

\* C22: a fix run never runs the structure analysis; the commit is made only
\* when at least one fix of a critical finding returned true, the remote branch
\* is created and pushed only after the commit and the pull request is opened
\* only after the push; without a critical finding or without an applied fix
\* there is no commit, no remote branch and no pull request.
C22_FixOrder ==
    cmd = "fix" =>
        /\ pc # "structure" /\ structPc = "idle" /\ structFindings = << >>
        /\ committed =>
              \E k \in 1..Len(fixResults) :
                  fixResults[k] /\ criticalFindings[k].severity = "critical"
        /\ Len(remoteLog) <= Len(FixWrites)
        /\ remoteLog = SubSeq(FixWrites, 1, Len(remoteLog))
        /\ remoteLog # << >> => committed
        /\ (Len(criticalFindings) = 0 \/ filesFixed = 0) =>
              ~committed /\ remoteLog = << >> /\ origin.prs = << >>

C22_Witness ==
    /\ cmd = "fix"
    /\ pc = "done"
    /\ remoteLog = FixWrites
    /\ Len(origin.prs) = 1
    /\ \E k \in 1..Len(fixResults) : ~fixResults[k]

\* a fix run that fixed nothing ends without a commit or a remote write
NothingFixedNothingPosted ==
    cmd = "fix" /\ pc = "done" /\ Len(criticalFindings) > 0 /\ filesFixed = 0
        /\ ~committed /\ remoteLog = << >>


(***************************************************************************)
(* Errors of a run.                                                        *)
(***************************************************************************)
\* the pull requests the review loop has gone through
HandledPRs ==
    {openPRs[k].number : k \in 1..(IF prIdx - 1 < Len(openPRs) THEN prIdx - 1
                                   ELSE Len(openPRs))}

\* a remote call of the run failed and the failure was caught where it occurred
CaughtRemoteFailure ==
    \/ issueCheck = "failed"
    \/ HandledPRs \ listedReviews # {}
    \/ \E i \in 1..Len(remoteLog) : remoteLog[i].detail = "unlabelled"

\* C23 as stated: every failed remote call ends the run with a non-zero status,
\* so a run that ended with status 0 had no failed remote call.
C23_AnyErrorIsFatal ==
    pc = "done" => ~CaughtRemoteFailure

\* C23, for the errors that leave the step they occur in: the run goes to the
\* catch block with the message, from there straight to exit with status 1
\* without changing the remote or running any step again, nothing follows the
\* end of the run, and the remote writes made before stay in the log.  The
\* failures of hasBeenReviewed, issueExists and the labelled issues.create are
\* caught where they occur and do not end the run.
C23_ThrownErrorIsFatal ==
    /\ [](pc = "exited" => error # "none" /\ ExitStatus = 1)
    /\ [](pc = "done" => error = "none" /\ ExitStatus = 0)
    /\ [](pc = "catch" => error # "none" /\ ENABLED CliCatch)
    /\ [][error' # error => pc' = "catch"]_vars
    /\ [][pc = "catch" => pc' = "exited" /\ remoteLog' = remoteLog /\ origin' = origin
                                        /\ error' = error]_vars
    /\ [][~Terminal]_vars
    /\ [][/\ Len(remoteLog') >= Len(remoteLog)
          /\ SubSeq(remoteLog', 1, Len(remoteLog)) = remoteLog]_vars

C23_Witness ==
    /\ cmd = "review"
    /\ pc = "exited"
    /\ error = "Failed to clone repository"
    /\ \E i \in 1..Len(remoteLog) : remoteLog[i].kind = "review"


(***************************************************************************)
(* Runs that execute at the same time.  Each run is a process of its own   *)
(* with its own GitManager; the runs share the directory cloned-repos.     *)
(* A step is one awaited file-system or git call of cloneRepo, of the      *)
(* analysis and of cleanup.                                                *)
(***************************************************************************)
NumRuns == 2
RunIds == 1..NumRuns

\* owner and repository name of the locators, as texts
Locators ==
    { [owner |-> << "acme" >>, repo |-> << "api" >>],
      [owner |-> << "other" >>, repo |-> << "api" >>],
      [owner |-> << "acme", "-", "x" >>, repo |-> << "y" >>],
      [owner |-> << "acme" >>, repo |-> << "x", "-", "y" >>] }

\* the target directory if it were named after the repository alone
targetDirOfRepo(owner, repo) == << "cloned-repos", repo >>

\* const targetDir = path.join(this.cloneDir, owner-repo)
targetDir(owner, repo) == << "cloned-repos", owner \o << "-" >> \o repo >>

TargetOf(r) == targetDir(runs[r].locator.owner, runs[r].locator.repo)

\* a path that does not exist; [by] is the run whose clone a directory holds
\* (0: left by an earlier run), [removedBy] the run that removed it last
Absent == [exists |-> FALSE, by |-> 0, removedBy |-> 0]

DirAt(path) == IF path \in DOMAIN dirs THEN dirs[path] ELSE Absent

SetDir(path, dir) == dirs' = (path :> dir) @@ dirs

Goto(r, next) == runs' = [runs EXCEPT ![r].pc = next]

NotConc == <<inputVars, secVars, structVars, histVars, commandVars>>

\* cloneRepo: if (await fs.pathExists(targetDir))
RunPathExists(r) ==
    /\ runs[r].pc = "cloneRepo"
    /\ Goto(r, IF DirAt(TargetOf(r)).exists THEN "cloneRemove" ELSE "gitClone")
    /\ UNCHANGED <<dirs, NotConc>>

\* cloneRepo: await fs.remove(targetDir)
RunCloneRemove(r) ==
    /\ runs[r].pc = "cloneRemove"
    /\ SetDir(TargetOf(r), [exists |-> FALSE, by |-> 0, removedBy |-> r])
    /\ Goto(r, "gitClone")
    /\ UNCHANGED NotConc

\* cloneRepo: await this.git.clone(repoUrl, targetDir); git refuses a target
\* that exists and is not empty, and any failure is thrown
RunGitClone(r) ==
    /\ runs[r].pc = "gitClone"
    /\ \E ok \in BOOLEAN :
          IF ok /\ ~DirAt(TargetOf(r)).exists
          THEN /\ SetDir(TargetOf(r), [exists |-> TRUE, by |-> r, removedBy |-> 0])
               /\ runs' = [runs EXCEPT ![r].pc = "getSourceFiles",
                                       ![r].repoPath = TargetOf(r)]
          ELSE /\ Goto(r, "exited")
               /\ UNCHANGED dirs
    /\ UNCHANGED NotConc

\* getSourceFiles: fs.readdir throws when the directory is gone
RunGetSourceFiles(r) ==
    /\ runs[r].pc = "getSourceFiles"
    /\ IF DirAt(runs[r].repoPath).exists
       THEN runs' = [runs EXCEPT ![r].pc = "security",
                                 ![r].foreign = @ \/ DirAt(runs[r].repoPath).by # r]
       ELSE Goto(r, "exited")
    /\ UNCHANGED <<dirs, NotConc>>

\* SecurityAnalyzer.analyze: parseFile reads every file and skips, with a
\* warning, the ones it cannot read
RunSecurity(r) ==
    /\ runs[r].pc = "security"
    /\ runs' = [runs EXCEPT ![r].pc = "structure",
                            ![r].skipped = @ \/ ~DirAt(runs[r].repoPath).exists,
                            ![r].foreign = @ \/ (/\ DirAt(runs[r].repoPath).exists
                                                 /\ DirAt(runs[r].repoPath).by # r)]
    /\ UNCHANGED <<dirs, NotConc>>

\* StructureAnalyzer.analyze: fs.readFile on a source file throws when it is gone
RunStructure(r) ==
    /\ runs[r].pc = "structure"
    /\ IF DirAt(runs[r].repoPath).exists
       THEN runs' = [runs EXCEPT ![r].pc = "cleanup",
                                 ![r].foreign = @ \/ DirAt(runs[r].repoPath).by # r]
       ELSE Goto(r, "exited")
    /\ UNCHANGED <<dirs, NotConc>>

\* cleanup: if (await fs.pathExists(repoPath))
RunCleanupExists(r) ==
    /\ runs[r].pc = "cleanup"
    /\ Goto(r, IF DirAt(runs[r].repoPath).exists THEN "cleanupRemove" ELSE "done")
    /\ UNCHANGED <<dirs, NotConc>>

\* cleanup: await fs.remove(repoPath)
RunCleanupRemove(r) ==
    /\ runs[r].pc = "cleanupRemove"
    /\ SetDir(runs[r].repoPath, [exists |-> FALSE, by |-> 0, removedBy |-> r])
    /\ Goto(r, "done")
    /\ UNCHANGED NotConc

NewRun(locator) ==
    [locator |-> locator, pc |-> "cloneRepo", repoPath |-> << >>,
     skipped |-> FALSE, foreign |-> FALSE]

ConcInit ==
    /\ sourceFiles = << >>
    /\ repoRoot = {}
    /\ gitignoreContent = << >>
    /\ secFindings = << >>
    /\ parsedFiles = << >>
    /\ secIdx = 1
    /\ secPc = "idle"
    /\ structFindings = << >>
    /\ structPc = "idle"
    /\ NoHistory
    /\ CliIdle
    /\ runs \in [RunIds -> {NewRun(locator) : locator \in Locators}]
    /\ \/ dirs = << >>
       \/ \E locator \in Locators :
             dirs = (targetDir(locator.owner, locator.repo)
                        :> [exists |-> TRUE, by |-> 0, removedBy |-> 0])

ConcNext ==
    \E r \in RunIds :
        \/ RunPathExists(r)
        \/ RunCloneRemove(r)
        \/ RunGitClone(r)
        \/ RunGetSourceFiles(r)
        \/ RunSecurity(r)
        \/ RunStructure(r)
        \/ RunCleanupExists(r)
        \/ RunCleanupRemove(r)

ConcSpec == ConcInit /\ [][ConcNext]_vars

\* the owner-repo name of the locator of a run
DirName(r) == runs[r].locator.owner \o << "-" >> \o runs[r].locator.repo

\* the run has cloned and is reading the clone directory for the analysis
ReadingStates == {"getSourceFiles", "security", "structure"}

\* no other run has the same owner-repo name
AloneOnName(r) == \A q \in RunIds \ {r} : DirName(q) # DirName(r)

\* C24: two runs with the same locator work on the same clone directory; a
\* step of a run never changes the directory of a run with another owner-repo
\* name, and a run that shares its name with no other run finds its own clone
\* whenever it reads.  (That a run can lose its directory to a run with the
\* same locator while reading is the state C24_Witness.)
C24_SharedCloneDir ==
    /\ [](\A r, q \in RunIds :
            runs[r].locator = runs[q].locator => TargetOf(r) = TargetOf(q))
    /\ [](\A r \in RunIds :
            AloneOnName(r) =>
               /\ ~runs[r].skipped /\ ~runs[r].foreign
               /\ runs[r].pc \in ReadingStates =>
                     /\ DirAt(runs[r].repoPath).exists
                     /\ DirAt(runs[r].repoPath).by = r)
    /\ [][\A r, q \in RunIds :
            (r # q /\ DirName(r) # DirName(q) /\ runs'[r] # runs[r])
            => DirAt(TargetOf(q))' = DirAt(TargetOf(q))]_vars

C24_Witness ==
    \E r, q \in RunIds :
        /\ r # q
        /\ runs[r].locator = runs[q].locator
        /\ runs[r].pc \in ReadingStates
        /\ ~DirAt(runs[r].repoPath).exists
        /\ DirAt(runs[r].repoPath).removedBy = q
        /\ runs[q].pc \in {"gitClone", "done"}


(***************************************************************************)
(* The source transformations of a fix run.                                *)
(***************************************************************************)
\* the text of a file in a list of files
CodeOf(files, path) ==
    LET k == CHOOSE k \in 1..Len(files) : files[k].filePath = path
    IN  files[k].code

\* the line the finding flags, in the file as it was analyzed
FlaggedLine(finding) == SplitLines(CodeOf(sourceFiles, finding.file))[finding.line]

\* the lines of the finding's file as they are in the clone directory now
CurrentLines(finding) == SplitLines(CodeOf(workFiles, finding.file))

\* a TODO block of fixSQLInjection stands on the three lines above line p
BlockAbove(lines, p) ==
    /\ p > 3
    /\ lines[p - 3] = Indent(lines[p]) \o TodoHeading
    /\ lines[p - 2] \in {Indent(lines[p]) \o TodoConcat, Indent(lines[p]) \o TodoTemplate}
    /\ lines[p - 1] = Indent(lines[p]) \o TodoExample

\* the loop over the critical findings of a fix run has ended
FixesDone ==
    /\ cmd = "fix"
    /\ pc \in {"applyFixes", "fixCommit", "fixCreateRef", "fixPush", "fixCreatePR"}
    /\ Len(fixResults) = Len(criticalFindings)

\* the unsafe-query findings whose fix returned true
FixedQueries ==
    {k \in 1..Len(fixResults) :
        fixResults[k] /\ criticalFindings[k].type = "sql-injection"}

\* C25: when the fixes of a fix run have been applied, every unsafe-query
\* finding whose fix returned true has a TODO block on the three lines directly
\* above the database call it flagged.
C25_TodoAboveFlaggedCall ==
    FixesDone =>
        \A k \in FixedQueries :
            \E p \in 1..Len(CurrentLines(criticalFindings[k])) :
                /\ CurrentLines(criticalFindings[k])[p] = FlaggedLine(criticalFindings[k])
                /\ BlockAbove(CurrentLines(criticalFindings[k]), p)

\* the first fix applied to a file puts its block above the flagged call
FirstFixAboveFlaggedCall ==
    FixesDone =>
        \A k \in FixedQueries :
            (\A j \in 1..(k - 1) :
                fixResults[j] => criticalFindings[j].file # criticalFindings[k].file)
            => \E p \in 1..Len(CurrentLines(criticalFindings[k])) :
                  /\ CurrentLines(criticalFindings[k])[p] = FlaggedLine(criticalFindings[k])
                  /\ BlockAbove(CurrentLines(criticalFindings[k]), p)

\* the exposed-secret findings whose fix returned true
FixedSecrets ==
    {k \in 1..Len(fixResults) :
        fixResults[k] /\ criticalFindings[k].type = "exposed-secret"}

\* the lines that the exposed-secret check reports in the finding's file as it
\* is in the clone directory now
ReportedAgain(finding) ==
    LET again == checkSecretsInCode(<< >>, CodeOf(workFiles, finding.file), finding.file)
    IN  {again[i].line : i \in 1..Len(again)}

\* line p holds the flagged assignment commented out and line p + 1 the
\* assignment of the same variable from the environment
ReplacedAt(finding, p) ==
    /\ p + 1 <= Len(CurrentLines(finding))
    /\ CurrentLines(finding)[p] = CommentedOut(FlaggedLine(finding))
    /\ CurrentLines(finding)[p + 1] =
           EnvAssignment(FlaggedLine(finding), VarName(FlaggedLine(finding)))

\* C26: when the fixes of a fix run have been applied, every exposed-secret
\* finding whose fix returned true has its assignment commented out and followed
\* by an environment-backed assignment of the same variable, and the
\* exposed-secret check run on the transformed file reports neither of the two
\* lines.
C26_SecretRemoved ==
    FixesDone =>
        \A k \in FixedSecrets :
            \E p \in 1..Len(CurrentLines(criticalFindings[k])) :
                /\ ReplacedAt(criticalFindings[k], p)
                /\ p \notin ReportedAgain(criticalFindings[k])
                /\ p + 1 \notin ReportedAgain(criticalFindings[k])

\* the first exposed-secret fix of a file comments the assignment out and adds
\* the environment-backed one, which the check does not report
FirstSecretReplaced ==
    FixesDone =>
        \A k \in FixedSecrets :
            (\A j \in 1..(k - 1) :
                fixResults[j] => criticalFindings[j].file # criticalFindings[k].file)
            => \E p \in 1..Len(CurrentLines(criticalFindings[k])) :
                  /\ ReplacedAt(criticalFindings[k], p)
                  /\ p + 1 \notin ReportedAgain(criticalFindings[k])

\* a fixed secret whose commented-out line is reported by the check again
SecretStillReported ==
    /\ FixesDone
    /\ \E k \in FixedSecrets :
          \E p \in ReportedAgain(criticalFindings[k]) : ReplacedAt(criticalFindings[k], p)

(***************************************************************************)
(* fixSQLInjection as a function of the file and the finding: one file of  *)
(* up to MaxFixLines sample lines and one unsafe-query finding at any line *)
(* number, the lines before the first and after the last included.         *)
(***************************************************************************)
MaxFixLines == 3

FixLineSamples ==
    {LineFiller, LineDbGetConcat, LineDbRunTemplate, LineDbGetBoth, LineDbRunSafe,
     LineDbExecConcat, LinePasswordLet}

FixInit ==
    /\ cmd = "fix"
    /\ pc = "applyFixes"
    /\ hasToken = TRUE
    /\ urlValid = TRUE
    /\ \E lines \in SeqsUpTo(FixLineSamples, MaxFixLines) \ { << >> } :
          \E readable \in BOOLEAN :
             workFiles = << [SourceFile(lines)[1] EXCEPT !.readable = readable] >>
    /\ sourceFiles = workFiles
    /\ \E n \in 0..(MaxFixLines + 1) :
          secFindings = << ReviewFinding("sql-injection", "critical", PathApp, n) >>
    /\ structFindings = << >>
    /\ allFindings = << >>
    /\ origin = [main |-> "sqli", prs |-> << >>, issues |-> << >>]
    /\ openPRs = << >>
    /\ prIdx = 1
    /\ prFiles = << >>
    /\ listedReviews = {}
    /\ issueCheck = "none"
    /\ cloneDir = "fresh"
    /\ repoRoot = Tree("sqli").root
    /\ gitignoreContent = Tree("sqli").gitignore
    /\ parsedFiles = << >>
    /\ secPc = "idle"
    /\ secIdx = 1
    /\ structPc = "idle"
    /\ NoHistory
    /\ fixResults = << >>
    /\ committed = FALSE
    /\ printed = {}
    /\ remoteLog = << >>
    /\ error = "none"
    /\ NoConcurrentRuns

FixNext == CliFixApply

FixSpec == FixInit /\ [][FixNext]_vars

\* the first critical finding, the lines of its file before and after its fix
FirstFinding == criticalFindings[1]
LinesBefore == SplitLines(CodeOf(sourceFiles, FirstFinding.file))
LinesAfter == SplitLines(CodeOf(workFiles, FirstFinding.file))

\* a line that holds nothing but a comment
IsCommentLine(line) ==
    Len(Trim(line)) >= 2 /\ SubSeq(Trim(line), 1, 2) = << "/", "/" >>

\* the fix of the first finding, an unsafe-query finding, has been applied
FirstQueryFixApplied ==
    /\ cmd = "fix"
    /\ Len(fixResults) = 1
    /\ FirstFinding.type = "sql-injection"

\* LinesAfter is LinesBefore with count comment lines put in before line n
InsertedBefore(n, count) ==
    /\ Len(LinesAfter) = Len(LinesBefore) + count
    /\ SubSeq(LinesAfter, 1, n - 1) = SubSeq(LinesBefore, 1, n - 1)
    /\ SubSeq(LinesAfter, n + count, Len(LinesAfter)) = SubSeq(LinesBefore, n, Len(LinesBefore))
    /\ \A i \in n..(n + count - 1) : IsCommentLine(LinesAfter[i])

\* the flagged line exists and one of the two patterns of the fix matches it
SomePatternMatches ==
    /\ FirstFinding.line \in 1..Len(LinesBefore)
    /\ \/ IsConcatPattern(LinesBefore[FirstFinding.line])
       \/ IsTemplatePattern(LinesBefore[FirstFinding.line])

\* C30: after fixSQLInjection has been applied to a file, either it returned
\* true and the file is the original one with three or six comment lines put in
\* directly before the flagged line, every original line being kept unmodified
\* and in order, or it returned false and the text of the file is unchanged; it
\* returns false whenever neither pattern matches the flagged line.
C30_OnlyInsertsComments ==
    FirstQueryFixApplied =>
        IF fixResults[1]
        THEN /\ SomePatternMatches
             /\ InsertedBefore(FirstFinding.line, 3) \/ InsertedBefore(FirstFinding.line, 6)
        ELSE workFiles = sourceFiles

\* a fix that matched both patterns on a line below the first one
C30_Witness ==
    /\ FirstQueryFixApplied
    /\ fixResults[1]
    /\ FirstFinding.line > 1
    /\ InsertedBefore(FirstFinding.line, 6)

\* a fix that matched no pattern on an existing line of a readable file
NoPatternNoChange ==
    /\ FirstQueryFixApplied
    /\ ~fixResults[1]
    /\ workFiles[1].readable
    /\ FirstFinding.line \in 1..Len(LinesBefore)
    /\ workFiles = sourceFiles

(***************************************************************************)
(* The file an inline comment is attached to.                              *)
(***************************************************************************)
\* the path of a finding's file relative to the root of the clone
RelativePath(file) == SubSeq(file, Len(repoPath) + 1, Len(file))

\* C27: every inline comment of a posted review is attached to the changed
\* file whose path is the path of the finding's own file relative to the
\* repository root.
C27_CommentOnOwnFile ==
    JustPosted =>
        LET comments == remoteLog[Len(remoteLog)].comments
            sources == Commentable(allFindings, prFiles)
        IN  \A k \in 1..Len(comments) :
               k <= Len(sources) => comments[k].path = RelativePath(sources[k].file)

\* every inline comment is attached to a changed file whose path ends with
\* the base name of the finding's file
CommentOnSameEnding ==
    JustPosted =>
        LET comments == remoteLog[Len(remoteLog)].comments
            sources == Commentable(allFindings, prFiles)
        IN  /\ Len(comments) = Len(sources)
            /\ \A k \in 1..Len(comments) :
                  /\ \E j \in 1..Len(prFiles) : prFiles[j].filename = comments[k].path
                  /\ EndsWith(PathChars(comments[k].path),
                              Chars(extractFileName(sources[k].file)))

\* a posted comment attached to a changed file that is not the finding's file
CommentOnOtherFile ==
    /\ JustPosted
    /\ \E k \in 1..Len(remoteLog[Len(remoteLog)].comments) :
          remoteLog[Len(remoteLog)].comments[k].path
             # RelativePath(Commentable(allFindings, prFiles)[k].file)

(***************************************************************************)
(* The clone directory after cloneRepo.                                    *)
(***************************************************************************)
\* the branch whose files the analysis of the run reads
AnalyzedBranch == IF cmd = "review" THEN openPRs[prIdx].head ELSE origin.main

\* C29: when cloneRepo has returned, the clone directory holds the default
\* branch and nothing else, and from the checkout to the end of the analysis it
\* holds exactly the files of the analyzed branch, which are the files the
\* analyzers are given: nothing an earlier run left there is read.
C29_FreshClone ==
    /\ pc = "checkout" \/ (pc = "getSourceFiles" /\ cmd # "review")
          => cloneDir = "fresh" /\ CurrentTree = Tree(origin.main)
    /\ pc \in {"getSourceFiles", "security", "structure"}
          => cloneDir = "fresh" /\ CurrentTree = Tree(AnalyzedBranch)
    /\ pc \in {"security", "structure"} => sourceFiles = Tree(AnalyzedBranch).files

\* cloneRepo has returned in a run that found the directory of an earlier run
C29_Witness ==
    /\ cmd = "analyze"
    /\ pc = "getSourceFiles"
    /\ CleaningExistingClone \in printed
    /\ CurrentTree = Tree(origin.main)
    /\ \A k \in 1..Len(workFiles) : workFiles[k].filePath # PathLegacy

(***************************************************************************)
(* Review runs one after another on the same repository: each run is a new *)
(* process; the remote repository, the console and the clone directory are *)
(* what the runs before it left.                                           *)
(***************************************************************************)
\* remote writes after which no further run is started
MaxRemoteWrites == 3

ReviewRunsInit ==
    /\ CliInit
    /\ cmd = "review"
    /\ hasToken
    /\ urlValid

\* node index.js review <url> once more, after the run before it has ended
ReviewAgain ==
    /\ cmd = "review"
    /\ Terminal
    /\ Len(remoteLog) < MaxRemoteWrites
    /\ pc' = "start"
    /\ cloneDir' = IF cloneDir = "absent" THEN "absent" ELSE "stale"
    /\ sourceFiles' = << >>
    /\ secFindings' = << >>
    /\ structFindings' = << >>
    /\ allFindings' = << >>
    /\ openPRs' = << >>
    /\ prIdx' = 1
    /\ prFiles' = << >>
    /\ listedReviews' = {}
    /\ error' = "none"
    /\ UNCHANGED <<runVars, printed, fixVars, repoRoot, gitignoreContent, workFiles,
                   idleVars, issueCheck, origin, remoteLog>>

ReviewRunsNext ==
    \/ CliNewClient
    \/ CliVerifyAuth
    \/ CliParseRepoUrl
    \/ CliGetOpenPRs
    \/ CliNextPR
    \/ CliHasBeenReviewed
    \/ CliGetPRFiles
    \/ CliCloneRepo
    \/ CliCheckout
    \/ CliGetSourceFiles
    \/ CliSecurityAnalysis
    \/ CliStructureAnalysis
    \/ CliCombine
    \/ CliSummary
    \/ CliCreateReview
    \/ CliCleanup
    \/ CliCatch
    \/ ReviewAgain

ReviewRunsSpec == ReviewRunsInit /\ [][ReviewRunsNext]_vars

\* the reviews and fallback comments the runs have posted on a pull request
PostsOn(number) ==
    {i \in 1..Len(remoteLog) :
        remoteLog[i].kind \in {"review", "comment"} /\ remoteLog[i].target = number}

\* the reviews the runs have posted on a pull request
ReviewsOn(number) ==
    {i \in 1..Len(remoteLog) :
        remoteLog[i].kind = "review" /\ remoteLog[i].target = number}

\* the already-reviewed check has succeeded whenever it was made
ChecksSucceeded == CouldNotCheckReviews \notin printed

\* C28: as long as every already-reviewed check has succeeded, the runs have
\* posted at most one review or fallback comment on each pull request.
C28_AtMostOnePost ==
    ChecksSucceeded =>
        \A number \in 1..Len(origin.prs) : Cardinality(PostsOn(number)) <= 1

\* as long as every already-reviewed check has succeeded, the runs have posted
\* at most one review on each pull request, and none on one that the bot had
\* reviewed before
AtMostOneReview ==
    ChecksSucceeded =>
        \A number \in 1..Len(origin.prs) :
            /\ Cardinality(ReviewsOn(number)) <= 1
            /\ Cardinality(ReviewsOn(number))
                  <= Cardinality({i \in 1..Len(origin.prs[number].reviews) :
                                    origin.prs[number].reviews[i] = Bot})

\* a pull request that carries a fallback comment and a later post of the bot
PostedAfterFallback ==
    /\ ChecksSucceeded
    /\ \E number \in 1..Len(origin.prs) :
          \E i, j \in PostsOn(number) : i < j /\ remoteLog[i].kind = "comment"

====
